---- MODULE Spec2Model ----
(***************************************************************************)
(* Verification model of wbern/claude-code-router, core package.           *)
(*                                                                         *)
(* Part 1: the upstream HTTP request engine, sendUnifiedRequest            *)
(* (packages/core/src/utils/request.ts): the retry loop, the per-attempt   *)
(* abort controller with its connect timer and caller-abort listener, the  *)
(* backoff selection and the daily-quota short-circuit (Spec).             *)
(* Part 2: the Gemini response translator, transformResponseOut            *)
(* (packages/core/src/utils/gemini.util.ts), unary and streamed            *)
(* (GeminiSpec), with the suggestion-mode delay as GeminiTransformer calls  *)
(* it.                                                                     *)
(* Part 3: the tools of buildRequestBody (gemini.util.ts).                 *)
(* Part 4: an OpenAI request through transformRequestOut and               *)
(* transformRequestIn (RoundTripSpec).                                     *)
(* Part 5: resolveApiKey and GeminiTransformer.transformRequestIn          *)
(* (KeySpec).                                                              *)
(* Part 6: buildRequestBody as a whole: tools, contents, loop hint and     *)
(* generationConfig (BuildSpec).                                           *)
(* Part 7: the stream adapters of OpenAICompatibleTransformer              *)
(* (AdapterSpec).                                                          *)
(* Part 8: the constructor and auth of OpenAICompatibleTransformer         *)
(* (AuthSpec).                                                             *)
(* The parts share the variables; each specification keeps the other       *)
(* parts idle.                                                             *)
(***************************************************************************)
EXTENDS Integers, Sequences, FiniteSets, TLC

(***************************************************************************)
(* Program constants (request.ts:4-5).                                     *)
(***************************************************************************)
(* Variant: one retry more than MAX_RETRIES.                               *)
MAX_RETRIES_mut == 2 + 1
MAX_RETRIES == 2
INITIAL_BACKOFF_MS == 1000

(* `null` of a `number | null` value (request.ts:53, 153).                 *)
Null == -1

(* A field, header or property that is not present.                        *)
NoField == "<absent>"

(***************************************************************************)
(* Math.random() returns a value in [0, 1): the model draws it as          *)
(* j / RandDenom for j in RandSamples.                                     *)
(***************************************************************************)
RandDenom == 10000
RandSamples == {0, RandDenom \div 2, RandDenom - 1}

Max(a, b) == IF a >= b THEN a ELSE b

(***************************************************************************)
(* Upstream inputs.                                                        *)
(***************************************************************************)
Statuses == {200, 299, 300, 404, 429, 499, 500, 504, 505}

(* Statuses the upstream sends with every header, body and read outcome of *)
(* the model; the other responses come without Retry-After and with a body *)
(* of PlainBodies (below) that reads to its end.                           *)
VariedStatuses == {429, 503}

(* Values of the Retry-After response header.  "DATE+7s" and "DATE-5s"     *)
(* stand for HTTP-dates 7 s after and 5 s before Date.now().               *)
RetryAfterValues == {NoField, "", "0", "3", "soon", "DATE+7s", "DATE-5s"}

(* parseInt(header, 10) on the header values above; a value outside the    *)
(* domain parses to NaN.                                                   *)
ParseInt10 == ("0" :> 0) @@ ("3" :> 3)

(* Date.parse(header) - Date.now() in ms; outside the domain Date.parse    *)
(* gives NaN.                                                              *)
DateParseMinusNow == ("DATE+7s" :> 7000) @@ ("DATE-5s" :> (0 - 5000))

(* parseFloat(retryDelay) * 1000 on the retryDelay strings of the model;   *)
(* a string outside the domain parses to NaN.                              *)
ParseFloatTimes1000 ==
    ("2s" :> 2000) @@ ("4s" :> 4000) @@ ("5s" :> 5000) @@
    ("1.002s" :> 1002) @@ ("0.5s" :> 500) @@ ("0s" :> 0)

(* A quotaId string, as the sequence of its words.                         *)
QuotaPerDay == <<"GenerateRequests", "PerDay", "PerProject", "PerModel">>
QuotaPerMinute == <<"GenerateRequests", "PerMinute", "PerProject", "PerModel">>
NoQuota == <<>>

Detail(delay, quota) == [retryDelay |-> delay, quotaId |-> quota]

(* Response bodies: text that is not JSON, JSON without error.details, and *)
(* JSON error payloads with a details array.                               *)
JsonBody(ds) == [json |-> TRUE, hasDetails |-> TRUE, details |-> ds]
TextBody == [json |-> FALSE, hasDetails |-> FALSE, details |-> <<>>]
PlainJsonBody == [json |-> TRUE, hasDetails |-> FALSE, details |-> <<>>]

Bodies ==
    { TextBody,
      PlainJsonBody,
      JsonBody(<<Detail("2s", NoQuota)>>),
      JsonBody(<<Detail("5s", NoQuota), Detail(NoField, QuotaPerMinute)>>),
      JsonBody(<<Detail("1.002s", NoQuota)>>),
      JsonBody(<<Detail("0.5s", NoQuota), Detail("soon", NoQuota)>>),
      JsonBody(<<Detail("4s", NoQuota), Detail(NoField, QuotaPerDay)>>),
      JsonBody(<<Detail(NoField, QuotaPerDay), Detail("4s", NoQuota)>>) }

PlainBodies ==
    { TextBody,
      JsonBody(<<Detail("4s", NoQuota), Detail(NoField, QuotaPerDay)>>) }

(* error.code of the errors fetch() rejects with.                          *)
TransientCodes ==
    { "UND_ERR_HEADERS_TIMEOUT", "UND_ERR_CONNECT_TIMEOUT", "UND_ERR_SOCKET",
      "ECONNRESET", "ECONNREFUSED", "ETIMEDOUT" }
NetworkErrorCodes == TransientCodes \cup {"ENOTFOUND", NoField}

(***************************************************************************)
(* Objects.                                                                *)
(***************************************************************************)
(* A Response: `id` is the attempt that fetched it, `readable` whether     *)
(* reading its body succeeds, bodyState the state of its body stream.      *)
Response(id, status, retryAfter, body, readable) ==
    [id |-> id, status |-> status, retryAfter |-> retryAfter, body |-> body,
     readable |-> readable, bodyState |-> "unread", synthetic |-> FALSE]

NoResponse ==
    [id |-> 0, status |-> 0, retryAfter |-> NoField, body |-> TextBody,
     readable |-> FALSE, bodyState |-> "unread", synthetic |-> FALSE]

Error(name, code, message) == [name |-> name, code |-> code, message |-> message]
NoError == Error("", NoField, "")

(* config.signal.reason ?? new DOMException("Aborted", "AbortError")       *)
CallerAbortReason == Error("AbortError", NoField, "Aborted")

(* The responses the upstream can answer attempt `id` with.                *)
Responses(id) ==
    { Response(id, st, ra, b, rd) :
        st \in VariedStatuses, ra \in RetryAfterValues, b \in Bodies,
        rd \in BOOLEAN }
    \cup
    { Response(id, st, NoField, b, TRUE) : st \in Statuses, b \in PlainBodies }

Outcome(kind, resp, err) == [kind |-> kind, resp |-> resp, err |-> err]
NoOutcome == Outcome("none", NoResponse, NoError)

(***************************************************************************)
(* Pure helpers of request.ts.                                             *)
(***************************************************************************)
(* Variant: no upper bound on the 5xx range.                              *)
isRetryableStatus_mut(status) ==
    status = 429 \/ status >= 500

isRetryableStatus(status) ==
    status = 429 \/ (status >= 500 /\ status <= 504)

(* Variant: a DNS failure counted as transient.                           *)
isRetryableNetworkError_mut(error) ==
    \/ error.code = "UND_ERR_HEADERS_TIMEOUT"
    \/ error.code = "UND_ERR_CONNECT_TIMEOUT"
    \/ error.code = "UND_ERR_SOCKET"
    \/ error.code = "ECONNRESET"
    \/ error.code = "ECONNREFUSED"
    \/ error.code = "ETIMEDOUT"
    \/ error.code = "ENOTFOUND"

isRetryableNetworkError(error) ==
    \/ error.code = "UND_ERR_HEADERS_TIMEOUT"
    \/ error.code = "UND_ERR_CONNECT_TIMEOUT"
    \/ error.code = "UND_ERR_SOCKET"
    \/ error.code = "ECONNRESET"
    \/ error.code = "ECONNREFUSED"
    \/ error.code = "ETIMEDOUT"

parseRetryAfter(header) ==
    IF header = NoField \/ header = "" THEN Null
    ELSE IF header \in DOMAIN ParseInt10
         THEN Max(INITIAL_BACKOFF_MS, ParseInt10[header] * 1000)
    ELSE IF header \in DOMAIN DateParseMinusNow
         THEN Max(INITIAL_BACKOFF_MS, DateParseMinusNow[header])
    ELSE Null

(* Variant: quotaId === "PerDay".                                         *)
IncludesPerDay_mut(quotaId) == quotaId = <<"PerDay">>

(* quotaId.includes("PerDay")                                              *)
IncludesPerDay(quotaId) == \E i \in 1..Len(quotaId) : quotaId[i] = "PerDay"

RECURSIVE WalkDetails(_, _, _)
WalkDetails(details, i, acc) ==
    IF i > Len(details) THEN acc
    ELSE LET detail == details[i]
             delay == detail.retryDelay
             d1 == IF /\ delay # NoField
                      /\ delay \in DOMAIN ParseFloatTimes1000
                      /\ ParseFloatTimes1000[delay] > 0
                   THEN Max(INITIAL_BACKOFF_MS, ParseFloatTimes1000[delay])
                   ELSE acc.delayMs
             q1 == IF IncludesPerDay(detail.quotaId) THEN TRUE
                   ELSE acc.isDailyQuota
         IN  WalkDetails(details, i + 1, [delayMs |-> d1, isDailyQuota |-> q1])

parseBodyRetryInfo(bodyText) ==
    IF ~bodyText.json \/ ~bodyText.hasDetails
    THEN [delayMs |-> Null, isDailyQuota |-> FALSE]
    ELSE WalkDetails(bodyText.details, 1, [delayMs |-> Null, isDailyQuota |-> FALSE])

(* Variant: jitter of 10% to 40%.                                         *)
withJitter_mut(delayMs, j) ==
    (delayMs * (11 * RandDenom + 3 * j) + 5 * RandDenom) \div (10 * RandDenom)

(* Math.round(delayMs + delayMs * (0.1 + r * 0.2)) with r = j / RandDenom; *)
(* Math.round(x) = floor(x + 1/2).                                         *)
withJitter(delayMs, j) ==
    (delayMs * (11 * RandDenom + 2 * j) + 5 * RandDenom) \div (10 * RandDenom)

(***************************************************************************)
(* State of one call of sendUnifiedRequest.                                *)
(***************************************************************************)
VARIABLES
    stream,            \* request.stream
    hasSignal,         \* config.signal is set
    aborted,           \* config.signal.aborted
    pc,                \* "start", "fetching", "draining", "sleeping", "returned", "threw"
    attempt,           \* the loop variable
    lastResponse,
    lastError,
    bodyRetryDelayMs,
    attemptAborted,    \* attemptAC.signal.aborted
    listenerOn,        \* callerAbortHandler is registered on config.signal
    timerOn,           \* connectTimer is armed
    sleepMs,           \* delay of the pending backoff timer (0: none)
    baseMs,            \* baseBackoff of the pending backoff timer
    returned,          \* the Response the call returned
    thrown,            \* the error the call threw
    attempts,          \* history: number of fetch() calls started
    sleeps,            \* history: number of backoff sleeps started
    prev,              \* history: what the upstream did to the latest attempt
    hist,              \* history: kind of outcome of every attempt
    abortPhase         \* history: where the call was when the caller aborted

reqVars ==
    <<stream, hasSignal, aborted, pc, attempt, lastResponse, lastError,
      bodyRetryDelayMs, attemptAborted, listenerOn, timerOn, sleepMs, baseMs,
      returned, thrown, attempts, sleeps, prev, hist, abortPhase>>

(***************************************************************************)
(* State of one call of the Gemini response translator,                    *)
(* transformResponseOut (gemini.util.ts:708-1214).                         *)
(***************************************************************************)
VARIABLES
    gpc,                \* "idle", "start", "reading", "processed", "ended", "returned"
    contentType,        \* response.headers.get("Content-Type")
    modelVersion,       \* chunk.modelVersion of the chunks of this response
    signatureSent,      \* gemini.util.ts:817
    contentSent,        \* gemini.util.ts:818
    hasThinkingContent, \* gemini.util.ts:819
    pendingContent,     \* gemini.util.ts:820
    contentIndex,       \* gemini.util.ts:821
    toolCallIndex,      \* gemini.util.ts:822
    buffer,             \* gemini.util.ts:1155: buffer when the read loop ends
    controller,         \* state of the caller stream: "open", "closed", "errored"
    nlines,             \* history: number of upstream lines read
    line,               \* history: the line the latest step gave to processLine
    emitted,            \* history: the deltas the latest step enqueued
    before,             \* history: <<k1, k2>> when a k1 delta preceded a k2 delta
    signatures,         \* history: number of signature deltas enqueued
    lastFrame,          \* history: the latest frame enqueued: "none", "delta", "done"
    readEnd,            \* history: how the read of the upstream body ended
    res,                \* the body of the unary answer
    originalBody,       \* messages of the body of the request being answered
    isSuggestion,       \* gemini.util.ts:714
    delayMs,            \* history: time awaited before the close or the return
    terminations        \* history: the controller.error() and close() calls made

gemVars ==
    <<gpc, contentType, modelVersion, signatureSent, contentSent,
      hasThinkingContent, pendingContent, contentIndex, toolCallIndex, buffer,
      controller, nlines, line, emitted, before, signatures, lastFrame,
      readEnd, res, originalBody, isSuggestion, delayMs, terminations>>

(* A line, a chunk or a result that does not exist (yet).                  *)
Nothing == [kind |-> "nothing"]

(* The translator has not been called.                                     *)
GeminiIdle ==
    /\ gpc = "idle"
    /\ contentType = NoField
    /\ modelVersion = NoField
    /\ signatureSent = FALSE
    /\ contentSent = FALSE
    /\ hasThinkingContent = FALSE
    /\ pendingContent = <<>>
    /\ contentIndex = 0
    /\ toolCallIndex = -1
    /\ buffer = Nothing
    /\ controller = "open"
    /\ nlines = 0
    /\ line = Nothing
    /\ emitted = <<>>
    /\ before = {}
    /\ signatures = 0
    /\ lastFrame = "none"
    /\ readEnd = "none"
    /\ res = Nothing
    /\ originalBody = <<>>
    /\ isSuggestion = FALSE
    /\ delayMs = 0
    /\ terminations = <<>>

(***************************************************************************)
(* State of one call of buildRequestBody (gemini.util.ts:331-585): the     *)
(* tools, the contents and the generationConfig of the body.               *)
(***************************************************************************)
VARIABLES
    bpc,                \* "idle", "start", "built"
    unifiedTools,       \* request.tools
    bodyTools,          \* body.tools
    buildRequest,       \* request: its messages, model and reasoning
    loopHint,           \* gemini.util.ts:469
    contentsLoop,       \* history: contents when the loop over the messages ended
    requestBody         \* body: its contents and generationConfig

buildVars ==
    <<bpc, unifiedTools, bodyTools, buildRequest, loopHint, contentsLoop,
      requestBody>>

BuildIdle ==
    /\ bpc = "idle"
    /\ unifiedTools = <<>>
    /\ bodyTools = <<>>
    /\ buildRequest = Nothing
    /\ loopHint = NoField
    /\ contentsLoop = <<>>
    /\ requestBody = Nothing

(***************************************************************************)
(* State of one conversion of an OpenAI request to the unified format      *)
(* (OpenAITransformer.transformRequestOut) and back                        *)
(* (OpenAICompatibleTransformer.transformRequestIn).                       *)
(***************************************************************************)
VARIABLES
    rpc,                \* "idle", "start", "unified", "openai"
    openaiIn,           \* the request r
    unified,            \* transformRequestOut(r)
    openaiRequest       \* transformRequestIn(transformRequestOut(r))

roundTripVars == <<rpc, openaiIn, unified, openaiRequest>>

RoundTripIdle ==
    /\ rpc = "idle"
    /\ openaiIn = Nothing
    /\ unified = Nothing
    /\ openaiRequest = Nothing

(***************************************************************************)
(* State of the calls of GeminiTransformer.transformRequestIn              *)
(* (src/unnamed/part_000:66-87) as far as the API key goes, with the       *)
(* process-wide cache of the keychain lookup (part_000:11).                *)
(***************************************************************************)
VARIABLES
    kpc,                \* "idle", "ready", "returned", "threw"
    cachedKeychainKey,  \* part_000:11
    envKey,             \* process.env.GEMINI_API_KEY of the latest call
    platform,           \* process.platform of this process
    security,           \* what execSync did in the latest call
    providerApiKey,     \* provider.apiKey of the latest call
    apiKey,             \* what resolveApiKey returned
    keyError,           \* what resolveApiKey threw
    bodyBuilt,          \* buildRequestBody was called in the latest call
    keyCalls,           \* history: number of calls so far
    securityRuns        \* history: number of runs of the keychain subprocess

keyVars ==
    <<kpc, cachedKeychainKey, envKey, platform, security, providerApiKey,
      apiKey, keyError, bodyBuilt, keyCalls, securityRuns>>

(* A string is the sequence of its characters; a value that may be         *)
(* undefined or null carries the flag `defined`.                           *)
Str(chars) == [defined |-> TRUE, chars |-> chars]
NoStr == [defined |-> FALSE, chars |-> <<>>]

KeyIdle ==
    /\ kpc = "idle"
    /\ cachedKeychainKey = NoStr
    /\ envKey = NoStr
    /\ platform = NoField
    /\ security = Nothing
    /\ providerApiKey = NoStr
    /\ apiKey = NoStr
    /\ keyError = {}
    /\ bodyBuilt = FALSE
    /\ keyCalls = 0
    /\ securityRuns = 0

(***************************************************************************)
(* State of one run of a stream adapter of OpenAICompatibleTransformer     *)
(* (part_000:381-485 convertOpenAIStreamToUnified, 495-599                 *)
(* convertUnifiedStreamToOpenAI; the two bodies are the same text).        *)
(***************************************************************************)
VARIABLES
    apc,                \* "idle", "start", "reading", "finished"
    adapter,            \* which of the two adapters runs
    isClosed,           \* part_000:389
    streamState,        \* the stream of `controller`: "readable", "closed", "errored"
    closedMessage,      \* the message of the runtime's TypeError on a closed stream
    reads,              \* history: number of reader.read() calls answered
    enqueued,           \* history: number of frames enqueued
    lateCalls,          \* history: enqueue and close calls made while isClosed
    closeThrew,         \* history: controller.close() threw
    escaped,            \* history: start() rejected
    abuffer,            \* part_000:388: the unterminated line in `buffer`
    received,           \* history: the [DONE] and JSON data lines received
    frames,             \* history: the lines whose frame was enqueued
    aend                \* history: how the read loop ended

adapterVars ==
    <<apc, adapter, isClosed, streamState, closedMessage, reads, enqueued,
      lateCalls, closeThrew, escaped, abuffer, received, frames, aend>>

(* No adapter is running.                                                  *)
AdapterIdle ==
    /\ apc = "idle"
    /\ adapter = NoField
    /\ isClosed = FALSE
    /\ streamState = "readable"
    /\ closedMessage = NoField
    /\ reads = 0
    /\ enqueued = 0
    /\ lateCalls = 0
    /\ closeThrew = FALSE
    /\ escaped = FALSE
    /\ abuffer = NoField
    /\ received = <<>>
    /\ frames = <<>>
    /\ aend = "none"

(***************************************************************************)
(* State of OpenAICompatibleTransformer as far as auth goes                *)
(* (part_000:120-138).                                                     *)
(***************************************************************************)
VARIABLES
    upc,                \* "idle", "new", "constructed", "authed"
    optionUseBearer,    \* options?.UseBearer: "undefined", "true" or "false"
    useBearer,          \* this.useBearer
    authApiKey,         \* provider.apiKey
    authRequest,        \* the request given to auth
    authResult          \* what auth returned

authVars == <<upc, optionUseBearer, useBearer, authApiKey, authRequest, authResult>>

(* No transformer is constructed.                                          *)
AuthIdle ==
    /\ upc = "idle"
    /\ optionUseBearer = "undefined"
    /\ useBearer = FALSE
    /\ authApiKey = <<>>
    /\ authRequest = NoField
    /\ authResult = Nothing

(* The variables of the components other than the one named.               *)
notReqVars == <<gemVars, buildVars, roundTripVars, keyVars, adapterVars, authVars>>
notGemVars == <<reqVars, buildVars, roundTripVars, keyVars, adapterVars, authVars>>
notBuildVars == <<reqVars, gemVars, roundTripVars, keyVars, adapterVars, authVars>>
notRoundTripVars == <<reqVars, gemVars, buildVars, keyVars, adapterVars, authVars>>
notKeyVars == <<reqVars, gemVars, buildVars, roundTripVars, adapterVars, authVars>>
notAdapterVars == <<reqVars, gemVars, buildVars, roundTripVars, keyVars, authVars>>
notAuthVars == <<reqVars, gemVars, buildVars, roundTripVars, keyVars, adapterVars>>

vars == <<reqVars, notReqVars>>

(* The request engine is not running.                                      *)
RequestIdle ==
    /\ stream = FALSE
    /\ hasSignal = FALSE
    /\ aborted = FALSE
    /\ pc = "idle"
    /\ attempt = 0
    /\ lastResponse = NoResponse
    /\ lastError = NoError
    /\ bodyRetryDelayMs = Null
    /\ attemptAborted = FALSE
    /\ listenerOn = FALSE
    /\ timerOn = FALSE
    /\ sleepMs = 0
    /\ baseMs = 0
    /\ returned = NoResponse
    /\ thrown = NoError
    /\ attempts = 0
    /\ sleeps = 0
    /\ prev = NoOutcome
    /\ hist = <<>>
    /\ abortPhase = "none"

Init ==
    /\ GeminiIdle
    /\ BuildIdle
    /\ RoundTripIdle
    /\ KeyIdle
    /\ AdapterIdle
    /\ AuthIdle
    /\ stream \in BOOLEAN
    /\ hasSignal \in BOOLEAN
    /\ aborted = FALSE
    /\ pc = "start"
    /\ attempt = 0
    /\ lastResponse = NoResponse
    /\ lastError = NoError
    /\ bodyRetryDelayMs = Null
    /\ attemptAborted = FALSE
    /\ listenerOn = FALSE
    /\ timerOn = FALSE
    /\ sleepMs = 0
    /\ baseMs = 0
    /\ returned = NoResponse
    /\ thrown = NoError
    /\ attempts = 0
    /\ sleeps = 0
    /\ prev = NoOutcome
    /\ hist = <<>>
    /\ abortPhase = "none"

(***************************************************************************)
(* Conditions of the retry loop.                                           *)
(***************************************************************************)
(* response.ok                                                             *)
IsOk(status) == status >= 200 /\ status <= 299

(* Variant: request.stream not consulted.                                 *)
ReturnsAtOnce_mut(resp) == IsOk(resp.status)

(* request.ts:230  lastResponse.ok || request.stream                       *)
ReturnsAtOnce(resp) == IsOk(resp.status) \/ stream

(* Variant: off by one.                                                   *)
IsLastAttempt_mut(a) == a = MAX_RETRIES + 1

(* request.ts:239  attempt === MAX_RETRIES                                 *)
IsLastAttempt(a) == a = MAX_RETRIES

(* request.ts:220-221                                                      *)
CanRetryError(error, a) ==
    LET isOurTimeout == error.name = "AbortError"
    IN  (isRetryableNetworkError(error) \/ isOurTimeout) /\ a < MAX_RETRIES

(* return resp                                                             *)
Return(resp) ==
    /\ pc' = "returned"
    /\ returned' = resp
    /\ UNCHANGED thrown

(* throw error                                                             *)
Throw(error) ==
    /\ pc' = "threw"
    /\ thrown' = error
    /\ UNCHANGED returned

(* cleanup(): clearTimeout(connectTimer), removeEventListener              *)
Cleanup ==
    /\ timerOn' = FALSE
    /\ listenerOn' = FALSE

(***************************************************************************)
(* The end of one loop iteration: attempt++, the loop test, and for        *)
(* attempt > 0 the backoff block up to the await of the sleep; after the   *)
(* loop, its last four lines.  lr, le and brd are the values lastResponse, *)
(* lastError and bodyRetryDelayMs have when the iteration ends.            *)
(***************************************************************************)
Continue(j, lr, le, brd) ==
    /\ attempt' = attempt + 1
    /\ IF attempt + 1 <= MAX_RETRIES
       THEN LET headerRetryMs ==
                    IF lr # NoResponse THEN parseRetryAfter(lr.retryAfter) ELSE Null
                baseBackoff ==
                    IF headerRetryMs # Null THEN headerRetryMs
                    ELSE IF brd # Null THEN brd
                    ELSE INITIAL_BACKOFF_MS * 2 ^ ((attempt + 1) - 1)
            IN  /\ pc' = "sleeping"
                /\ baseMs' = baseBackoff
                /\ sleepMs' = withJitter(baseBackoff, j)
                /\ sleeps' = sleeps + 1
                /\ UNCHANGED <<returned, thrown>>
       ELSE /\ IF le # NoError /\ lr = NoResponse THEN Throw(le) ELSE Return(lr)
            /\ UNCHANGED <<baseMs, sleepMs, sleeps>>

(***************************************************************************)
(* request.ts:179-209: the new AbortController, the check of the caller's  *)
(* signal, the listener, the connect timer and the call of fetch().        *)
(***************************************************************************)
BeginAttempt ==
    IF hasSignal /\ aborted
    THEN /\ Throw(CallerAbortReason)
         /\ UNCHANGED <<attemptAborted, listenerOn, timerOn, attempts>>
    ELSE /\ pc' = "fetching"
         /\ attemptAborted' = FALSE
         /\ listenerOn' = hasSignal
         /\ timerOn' = TRUE
         /\ attempts' = attempts + 1
         /\ UNCHANGED <<returned, thrown>>

(* The first iteration (attempt = 0) has no backoff block.                 *)
FirstAttempt ==
    /\ UNCHANGED notReqVars
    /\ pc = "start"
    /\ BeginAttempt
    /\ UNCHANGED <<stream, hasSignal, aborted, attempt, lastResponse, lastError,
                   bodyRetryDelayMs, sleepMs, baseMs, sleeps, prev, hist, abortPhase>>

(* Variant: bodyRetryDelayMs is not reset after the sleep.                *)
Wake_mut ==
    /\ UNCHANGED notReqVars
    /\ pc = "sleeping"
    /\ lastError' = NoError
    /\ sleepMs' = 0
    /\ baseMs' = 0
    /\ BeginAttempt
    /\ UNCHANGED <<stream, hasSignal, aborted, attempt, lastResponse, sleeps,
                   prev, hist, abortPhase, bodyRetryDelayMs>>

(* The backoff timer fires: request.ts:172-173, then the next attempt.     *)
Wake ==
    /\ UNCHANGED notReqVars
    /\ pc = "sleeping"
    /\ bodyRetryDelayMs' = Null
    /\ lastError' = NoError
    /\ sleepMs' = 0
    /\ baseMs' = 0
    /\ BeginAttempt
    /\ UNCHANGED <<stream, hasSignal, aborted, attempt, lastResponse, sleeps,
                   prev, hist, abortPhase>>

(***************************************************************************)
(* fetch() resolves: response headers arrived (request.ts:206-241).        *)
(***************************************************************************)
FetchResponse ==
    /\ UNCHANGED notReqVars
    /\ pc = "fetching"
    /\ ~attemptAborted
    /\ \E r \in Responses(attempts) :
         /\ lastResponse' = r
         /\ prev' = Outcome("response", r, NoError)
         /\ hist' = Append(hist, "response")
         /\ Cleanup
         /\ IF ReturnsAtOnce(r) THEN Return(r)
            ELSE IF ~isRetryableStatus(r.status) THEN Return(r)
            ELSE IF IsLastAttempt(attempt) THEN Return(r)
            ELSE /\ pc' = "draining"
                 /\ UNCHANGED <<returned, thrown>>
    /\ UNCHANGED <<stream, hasSignal, aborted, attempt, lastError, bodyRetryDelayMs,
                   attemptAborted, sleepMs, baseMs, attempts, sleeps, abortPhase>>

(* Variant: the caller's signal is not consulted in the catch block.      *)
CatchBlock_mut(error) ==
    /\ Cleanup
    /\ IF CanRetryError(error, attempt)
       THEN /\ lastError' = error
            /\ lastResponse' = NoResponse
            /\ \E j \in RandSamples : Continue(j, NoResponse, error, bodyRetryDelayMs)
       ELSE /\ Throw(error)
            /\ UNCHANGED <<attempt, lastResponse, lastError, sleepMs, baseMs, sleeps>>

(***************************************************************************)
(* The catch block of the attempt (request.ts:211-227).                    *)
(***************************************************************************)
CatchBlock(error) ==
    /\ Cleanup
    /\ IF hasSignal /\ aborted
       THEN /\ Throw(error)
            /\ UNCHANGED <<attempt, lastResponse, lastError, sleepMs, baseMs, sleeps>>
       ELSE IF CanRetryError(error, attempt)
       THEN /\ lastError' = error
            /\ lastResponse' = NoResponse
            /\ \E j \in RandSamples : Continue(j, NoResponse, error, bodyRetryDelayMs)
       ELSE /\ Throw(error)
            /\ UNCHANGED <<attempt, lastResponse, lastError, sleepMs, baseMs, sleeps>>

(* fetch() rejects with a network error.                                   *)
FetchNetworkError ==
    /\ UNCHANGED notReqVars
    /\ pc = "fetching"
    /\ ~attemptAborted
    /\ \E code \in NetworkErrorCodes :
         LET error == Error("TypeError", code, "fetch failed")
         IN  /\ prev' = Outcome("neterror", NoResponse, error)
             /\ hist' = Append(hist, IF code \in TransientCodes THEN "transient" ELSE "fatal")
             /\ CatchBlock(error)
    /\ UNCHANGED <<stream, hasSignal, aborted, bodyRetryDelayMs, attemptAborted,
                   attempts, abortPhase>>

(***************************************************************************)
(* The connect timer fires before the headers arrive (request.ts:193-196): *)
(* attemptAC.abort(new Error("CONNECT_TIMEOUT")).  fetch() rejects with    *)
(* the signal's abort reason, the Error just built (name "Error"); a       *)
(* runtime whose fetch ignores the reason rejects with a DOMException      *)
(* named "AbortError".  Both are outcomes of the step.                     *)
(***************************************************************************)
TimeoutErrorNames == {"Error", "AbortError"}

ConnectTimeout ==
    /\ UNCHANGED notReqVars
    /\ pc = "fetching"
    /\ timerOn
    /\ ~attemptAborted
    /\ attemptAborted' = TRUE
    /\ \E name \in TimeoutErrorNames :
         LET error == Error(name, NoField, "CONNECT_TIMEOUT")
         IN  /\ prev' = Outcome("timeout", NoResponse, error)
             /\ hist' = Append(hist, "timeout")
             /\ CatchBlock(error)
    /\ UNCHANGED <<stream, hasSignal, aborted, bodyRetryDelayMs, attempts, abortPhase>>

(***************************************************************************)
(* The caller aborts config.signal.  A registered callerAbortHandler       *)
(* aborts attemptAC with the caller's reason ({ once: true }).             *)
(***************************************************************************)
PhaseOf(p) ==
    CASE p = "start" -> "before"
      [] p = "fetching" -> "inflight"
      [] p = "sleeping" -> "sleep"
      [] p = "draining" -> "drain"
      [] OTHER -> "after"

CallerAbort ==
    /\ UNCHANGED notReqVars
    /\ hasSignal
    /\ ~aborted
    /\ pc # "threw"
    /\ aborted' = TRUE
    /\ attemptAborted' = (attemptAborted \/ listenerOn)
    /\ listenerOn' = FALSE
    /\ abortPhase' = PhaseOf(pc)
    /\ UNCHANGED <<stream, hasSignal, pc, attempt, lastResponse, lastError,
                   bodyRetryDelayMs, timerOn, sleepMs, baseMs, returned, thrown,
                   attempts, sleeps, prev, hist>>

(* fetch() rejects because the caller's abort aborted attemptAC.           *)
FetchAborted ==
    /\ UNCHANGED notReqVars
    /\ pc = "fetching"
    /\ attemptAborted
    /\ prev' = Outcome("aborted", NoResponse, CallerAbortReason)
    /\ hist' = Append(hist, "aborted")
    /\ CatchBlock(CallerAbortReason)
    /\ UNCHANGED <<stream, hasSignal, aborted, bodyRetryDelayMs, attemptAborted,
                   attempts, abortPhase>>

(***************************************************************************)
(* The drain of a retryable response (request.ts:243-266).                 *)
(***************************************************************************)
(* await lastResponse.text() resolves.                                     *)
DrainOk ==
    /\ UNCHANGED notReqVars
    /\ pc = "draining"
    /\ lastResponse.readable
    /\ LET bodyText == lastResponse.body
           retryInfo == parseBodyRetryInfo(bodyText)
           drained == [lastResponse EXCEPT !.bodyState = "read"]
       IN  /\ lastResponse' = drained
           /\ IF retryInfo.isDailyQuota
              THEN /\ Return([drained EXCEPT !.bodyState = "unread", !.synthetic = TRUE])
                   /\ UNCHANGED <<attempt, bodyRetryDelayMs, sleepMs, baseMs, sleeps>>
              ELSE /\ bodyRetryDelayMs' = retryInfo.delayMs
                   /\ \E j \in RandSamples :
                        Continue(j, drained, lastError, retryInfo.delayMs)
    /\ UNCHANGED <<stream, hasSignal, aborted, lastError, attemptAborted, listenerOn,
                   timerOn, attempts, prev, hist, abortPhase>>

(* await lastResponse.text() rejects: the error is ignored.                *)
DrainFail ==
    /\ UNCHANGED notReqVars
    /\ pc = "draining"
    /\ ~lastResponse.readable
    /\ LET errored == [lastResponse EXCEPT !.bodyState = "errored"]
       IN  /\ lastResponse' = errored
           /\ \E j \in RandSamples :
                Continue(j, errored, lastError, bodyRetryDelayMs)
    /\ UNCHANGED <<stream, hasSignal, aborted, lastError, bodyRetryDelayMs,
                   attemptAborted, listenerOn, timerOn, attempts, prev, hist,
                   abortPhase>>

Next ==
    \/ FirstAttempt
    \/ Wake
    \/ FetchResponse
    \/ FetchNetworkError
    \/ ConnectTimeout
    \/ FetchAborted
    \/ CallerAbort
    \/ DrainOk
    \/ DrainFail

Spec == Init /\ [][Next]_vars

TypeOK ==
    /\ pc \in {"start", "fetching", "draining", "sleeping", "returned", "threw"}
    /\ attempt \in 0..MAX_RETRIES
    /\ attempts \in 0..(MAX_RETRIES + 1)
    /\ stream \in BOOLEAN /\ hasSignal \in BOOLEAN /\ aborted \in BOOLEAN
    /\ bodyRetryDelayMs = Null \/ bodyRetryDelayMs >= INITIAL_BACKOFF_MS

Done == pc \in {"returned", "threw"}

(***************************************************************************)
(* Properties of the request engine.                                       *)
(***************************************************************************)

(* C1: one call starts at most 3 fetch attempts, whatever the upstream     *)
(* does, and once the third attempt has settled the call is over: it has   *)
(* returned a response or thrown (no drain, no sleep, no fourth attempt).  *)
C1_AtMostThreeAttempts ==
    /\ attempts <= 3
    /\ (attempts = 3 /\ pc # "fetching") => Done

C1_Witness ==
    /\ attempts = 3
    /\ pc = "returned"
    /\ hist = <<"transient", "timeout", "response">>

(* The claim's precondition of C2, read off the body itself: a JSON body   *)
(* whose error.details has an entry with metadata.quotaId containing       *)
(* "PerDay".                                                               *)
HasPerDayDetail(body) ==
    /\ body.json
    /\ body.hasDetails
    /\ \E i \in 1..Len(body.details) :
         \E k \in 1..Len(body.details[i].quotaId) :
            body.details[i].quotaId[k] = "PerDay"

(* C2: after a 429 response whose (readable) JSON body has a PerDay quota  *)
(* detail no further fetch attempt starts, and the call returns a response *)
(* with status 429 and the same body text, unread.                         *)
C2_DailyQuotaNoRetry ==
    ( /\ prev.kind = "response"
      /\ prev.resp.status = 429
      /\ prev.resp.readable
      /\ HasPerDayDetail(prev.resp.body) )
    => /\ attempts = prev.resp.id
       /\ pc \in {"draining", "returned"}
       /\ pc = "returned" =>
            /\ returned.status = 429
            /\ returned.body = prev.resp.body
            /\ returned.bodyState = "unread"

C2_Witness ==
    /\ ~stream
    /\ pc = "returned"
    /\ returned.synthetic
    /\ returned.status = 429
    /\ HasPerDayDetail(returned.body)
    /\ attempts = 2

(* C3, as claimed: with request.stream = true no second fetch attempt is   *)
(* ever started, whatever the first attempt's outcome.                     *)
C3_StreamNeverRetries == stream => attempts <= 1

(* C3, amended: with request.stream = true an attempt that yields a        *)
(* response (any status) ends the call: that response is returned unread   *)
(* and no further attempt starts.  (Attempts that fail before any response *)
(* arrives are still retried.)                                             *)
C3_StreamResponseEndsCall ==
    (stream /\ prev.kind = "response")
    => /\ pc = "returned"
       /\ returned = prev.resp
       /\ attempts = prev.resp.id

C3_Witness ==
    /\ stream
    /\ pc = "returned"
    /\ returned.status = 429
    /\ attempts = 2
    /\ hist = <<"transient", "response">>

(* C4: when the connect timer fires and fewer than 3 attempts have been    *)
(* made, the timeout is not raised to the caller (another attempt is       *)
(* started instead).                                                       *)
C4_ConnectTimeoutRetried ==
    ~(pc = "threw" /\ thrown.message = "CONNECT_TIMEOUT" /\ attempts < 3)

(* C5: once the caller's signal is aborted no new fetch attempt starts; an *)
(* abort during an in-flight attempt aborts that attempt, and the attempt  *)
(* then ends the call by throwing, never by a retry; a call whose caller   *)
(* aborted before the first attempt, during an in-flight attempt or during *)
(* a backoff sleep never returns a response.                               *)
C5_CallerAbortStopsCall ==
    [][ /\ aborted => attempts' = attempts
        /\ (abortPhase = "none" /\ abortPhase' = "inflight") => attemptAborted'
        /\ (aborted /\ pc = "fetching") => pc' = "threw"
        /\ abortPhase' \in {"before", "inflight", "sleep"} => pc' # "returned"
      ]_vars

C5_Witness ==
    /\ pc = "threw"
    /\ abortPhase = "inflight"
    /\ thrown = CallerAbortReason
    /\ attempts = 2

(* C6: an attempt that yields a 2xx response, or a status outside          *)
(* {429, 500..504}, ends the call: that same response is returned with its *)
(* body unread and no further attempt starts.                              *)
C6_FinalStatusReturned ==
    ( /\ prev.kind = "response"
      /\ \/ prev.resp.status \in 200..299
         \/ prev.resp.status \notin {429, 500, 501, 502, 503, 504} )
    => /\ pc = "returned"
       /\ returned = prev.resp
       /\ returned.bodyState = "unread"
       /\ attempts = prev.resp.id

C6_Witness ==
    /\ ~stream
    /\ pc = "returned"
    /\ returned.status = 505
    /\ attempts = 2

(* C7: for a non-streaming request, three attempts that all fail with a    *)
(* transient network error end with the last error thrown; a network error *)
(* whose code is not transient is thrown on the attempt where it occurs.   *)
C7_NetworkErrors ==
    ~stream =>
      /\ (Len(hist) = 3 /\ \A i \in 1..3 : hist[i] = "transient")
            => (pc = "threw" /\ thrown = prev.err /\ prev.kind = "neterror")
      /\ (prev.kind = "neterror" /\ prev.err.code \notin TransientCodes)
            => (pc = "threw" /\ thrown = prev.err /\ attempts = Len(hist))

C7_Witness ==
    /\ ~stream
    /\ hist = <<"transient", "transient", "transient">>
    /\ pc = "threw"
    /\ thrown.code = "ETIMEDOUT"

(* The first part of C8: a retryable status on the third attempt of a      *)
(* non-streaming request is returned with its body unread.                 *)
C8_LastResponseIntact ==
    ( /\ prev.kind = "response"
      /\ prev.resp.id = 3
      /\ prev.resp.status \in {429, 500, 501, 502, 503, 504} )
    => (pc = "returned" /\ returned = prev.resp /\ returned.bodyState = "unread")

(* C8, as claimed: ... and when a later attempt has started, the body of   *)
(* the earlier retryable response has been fully read.                     *)
C8_EarlierBodiesFullyRead ==
    ~stream =>
      /\ C8_LastResponseIntact
      /\ (pc = "fetching" /\ lastResponse # NoResponse)
            => lastResponse.bodyState = "read"

(* C8, amended: ... and when a later attempt has started, the read of the  *)
(* body of the earlier retryable response has settled: the body was read   *)
(* to its end, or the read failed and the failure was ignored.             *)
C8_EarlierBodiesDrained ==
    ~stream =>
      /\ C8_LastResponseIntact
      /\ (pc = "fetching" /\ lastResponse # NoResponse)
            => lastResponse.bodyState \in {"read", "errored"}

C8_Witness ==
    /\ ~stream
    /\ pc = "returned"
    /\ attempts = 3
    /\ returned.status = 503
    /\ returned.bodyState = "unread"
    /\ hist = <<"response", "response", "response">>

(* The base delay the claim of C9 prescribes before retry k, given what    *)
(* the upstream did to the attempt before it.                              *)
ExpectedBase(o, k) ==
    IF o.kind = "response" /\ parseRetryAfter(o.resp.retryAfter) # Null
    THEN parseRetryAfter(o.resp.retryAfter)
    ELSE IF /\ o.kind = "response"
            /\ o.resp.readable
            /\ parseBodyRetryInfo(o.resp.body).delayMs # Null
    THEN parseBodyRetryInfo(o.resp.body).delayMs
    ELSE 1000 * 2 ^ (k - 1)

(* C9: the base of the backoff before retry k is the Retry-After header of *)
(* the previous response if it parses, else the retryDelay of the previous *)
(* response's body, else 1000 * 2^(k-1); a delay from an earlier response  *)
(* is never used after a different failure.                                *)
C9_BackoffPrecedence ==
    pc = "sleeping" =>
      /\ attempt \in 1..2
      /\ baseMs = ExpectedBase(prev, attempt)

C9_Witness ==
    /\ pc = "sleeping"
    /\ attempt = 2
    /\ prev.kind = "neterror"
    /\ baseMs = 2000
    /\ sleeps = 2

(* C10, as claimed: every backoff sleep is at least INITIAL_BACKOFF_MS and *)
(* at most 1.3 times its base.                                             *)
C10_SleepAtMost130Percent ==
    pc = "sleeping" =>
      /\ sleepMs >= 1000
      /\ 10 * sleepMs <= 13 * baseMs

(* C10, amended: every backoff delay is at least INITIAL_BACKOFF_MS and is *)
(* the base plus 10%-30% jitter rounded to the nearest millisecond, so at  *)
(* most 1.3 * base + 0.5; a call sleeps at most MAX_RETRIES = 2 times.     *)
C10_SleepRounded ==
    /\ sleeps <= 2
    /\ pc = "sleeping" =>
         /\ sleepMs >= 1000
         /\ 10 * sleepMs <= 13 * baseMs + 5
         /\ 10 * sleepMs >= 11 * baseMs - 5

C10_Witness ==
    /\ pc = "sleeping"
    /\ baseMs = 1002
    /\ sleepMs = 1303
    /\ sleeps = 2

(***************************************************************************)
(* C37: a caller abort that comes after the response headers of an attempt *)
(* have arrived, while its body is still being read (by the caller of a    *)
(* returned response, or by the drain of a retryable one), aborts that     *)
(* attempt; the connect timer is no longer armed then and cannot abort it. *)
(***************************************************************************)
C37_Step ==
    /\ (pc \in {"returned", "draining"} /\ ~aborted /\ aborted') => attemptAborted'
    /\ pc \in {"returned", "draining"} => ~timerOn

C37_AbortAfterHeaders == [][C37_Step]_vars

(***************************************************************************)
(* Part 2: the Gemini response translator, transformResponseOut            *)
(* (packages/core/src/utils/gemini.util.ts:708-1214): the unary branch and *)
(* the streaming branch with processLine, the read loop and its catch and  *)
(* finally blocks.                                                         *)
(***************************************************************************)
(* Upstream lines read on one stream, and parts in one candidate.          *)
MaxLines == 2
MaxParts == 2

(* chunk.modelVersion, and chunk.modelVersion.includes("3").               *)
ModelVersions == {"gemini-2.5-pro", "gemini-3-pro-preview"}
Includes3 == ("gemini-2.5-pro" :> FALSE) @@ ("gemini-3-pro-preview" :> TRUE)

(***************************************************************************)
(* Strings the upstream chooses are sequences of tokens; "" is <<>>.  The  *)
(* token <<n, i>> is the string carried by part i of line n, so that a     *)
(* delta names the part its text came from.                                *)
(***************************************************************************)
Token(n, i) == <<n, i>>
Newline == <<0, 0>>
(* `ccr_${+new Date()}` (gemini.util.ts:978)                               *)
CcrMs == <<0, 1>>

(* A Part of a candidate.  text, functionCall and thoughtSignature are     *)
(* <<>> when the part does not carry them.                                 *)
Part(shape, n, i) ==
    [text |-> IF shape \in {"thought", "text"} THEN <<Token(n, i)>> ELSE <<>>,
     thought |-> shape = "thought",
     functionCall |-> IF shape = "functionCall" THEN <<Token(n, i)>> ELSE <<>>,
     thoughtSignature |-> IF shape = "signature" THEN <<Token(n, i)>> ELSE <<>>]

PartShapes == {"thought", "text", "functionCall", "signature"}

(* candidates[0].content.parts of line n.                                  *)
PartSeqs(n) ==
    UNION { { [i \in 1..k |-> Part(sh[i], n, i)] : sh \in [1..k -> PartShapes] } :
            k \in 0..MaxParts }

(* candidates[0].finishReason, and its toLowerCase().                      *)
FinishReasons == {NoField, "STOP", "MAX_TOKENS"}
ToLowerCase == ("STOP" :> "stop") @@ ("MAX_TOKENS" :> "max_tokens")

(* finish_reason: null                                                     *)
NullReason == "null"

(***************************************************************************)
(* Upstream SSE lines: "" ("blank"), "data: [DONE]" ("done"), "data: "     *)
(* followed by text that is not JSON ("invalid"), by JSON without          *)
(* candidates ("nocandidates"), and by a response chunk ("chunk").         *)
(***************************************************************************)
Line(kind, parts, finishReason) ==
    [kind |-> kind, parts |-> parts, finishReason |-> finishReason]

Chunks(n) == { Line("chunk", ps, fr) : ps \in PartSeqs(n), fr \in FinishReasons }

Lines(n) ==
    Chunks(n) \cup
    { Line(k, <<>>, NoField) : k \in {"blank", "done", "invalid", "nocandidates"} }

(* line.startsWith("data: ") with a non-empty line.slice(6).trim()         *)
StartsWithData(l) == l.kind # "blank"

(* JSON.parse(chunkStr) returns: "[DONE]" is not JSON.                     *)
JsonParses(l) == l.kind \in {"nocandidates", "chunk"}

(***************************************************************************)
(* getFinishReason (gemini.util.ts:666-672)                                *)
(***************************************************************************)
(* Variant: "stop" is never turned into "tool_calls".                      *)
getFinishReason_mut(candidate, hasToolCalls) ==
    IF candidate.finishReason = NoField THEN NullReason
    ELSE ToLowerCase[candidate.finishReason]
getFinishReason(candidate, hasToolCalls) ==
    LET reason == IF candidate.finishReason = NoField THEN NullReason
                  ELSE ToLowerCase[candidate.finishReason]
    IN  IF hasToolCalls /\ reason = "stop" THEN "tool_calls" ELSE reason

(* The frames of the caller stream that carry a delta.                     *)
Delta(kind, text, finish_reason, index, tool) ==
    [kind |-> kind, text |-> text, finish_reason |-> finish_reason,
     index |-> index, tool |-> tool]

(* .map(part => part.text).join("\n")                                      *)
RECURSIVE JoinNewline(_)
JoinNewline(parts) ==
    IF parts = <<>> THEN <<>>
    ELSE IF Len(parts) = 1 THEN parts[1].text
    ELSE parts[1].text \o <<Newline>> \o JoinNewline(Tail(parts))

(* parts.find(part => part.thoughtSignature)?.thoughtSignature             *)
FindSignature(parts) ==
    LET signed == SelectSeq(parts, LAMBDA p : p.thoughtSignature # <<>>)
    IN  IF signed = <<>> THEN <<>> ELSE signed[1].thoughtSignature

(***************************************************************************)
(* processLine (gemini.util.ts:826-1152) on the closure variables `s`.     *)
(* Each step gives the variables after it and the deltas it enqueues.      *)
(***************************************************************************)
Closure ==
    [signatureSent |-> signatureSent, contentSent |-> contentSent,
     hasThinkingContent |-> hasThinkingContent, pendingContent |-> pendingContent,
     contentIndex |-> contentIndex, toolCallIndex |-> toolCallIndex]

Step(s, out) == [state |-> s, out |-> out]

(* gemini.util.ts:846-878: one thinking delta for each thought part.       *)
ThinkingDeltas(s, parts) ==
    LET thinking == SelectSeq(parts, LAMBDA p : p.text # <<>> /\ p.thought)
    IN  Step([s EXCEPT !.hasThinkingContent = @ \/ thinking # <<>>],
             [i \in 1..Len(thinking) |->
                Delta("thinking", thinking[i].text, NullReason, s.contentIndex, Null)])

(* Variant: the upstream signature is forwarded whatever signatureSent is. *)
SignatureDelta_mut(s, parts) ==
    LET signature == FindSignature(parts)
    IN  IF signature # <<>>
        THEN Step([s EXCEPT !.signatureSent = TRUE,
                            !.contentIndex = @ + 1,
                            !.pendingContent = <<>>,
                            !.contentSent = @ \/ s.pendingContent # <<>>],
                  <<Delta("signature", signature, NullReason, s.contentIndex, Null)>>
                  \o (IF s.pendingContent # <<>>
                      THEN <<Delta("content", s.pendingContent, NullReason,
                                   s.contentIndex + 1, Null)>>
                      ELSE <<>>))
        ELSE Step(s, <<>>)

(* gemini.util.ts:880-943: the upstream signature, then pendingContent.    *)
SignatureDelta(s, parts) ==
    LET signature == FindSignature(parts)
    IN  IF signature # <<>> /\ ~s.signatureSent
        THEN Step([s EXCEPT !.signatureSent = TRUE,
                            !.contentIndex = @ + 1,
                            !.pendingContent = <<>>,
                            !.contentSent = @ \/ s.pendingContent # <<>>],
                  <<Delta("signature", signature, NullReason, s.contentIndex, Null)>>
                  \o (IF s.pendingContent # <<>>
                      THEN <<Delta("content", s.pendingContent, NullReason,
                                   s.contentIndex + 1, Null)>>
                      ELSE <<>>))
        ELSE Step(s, <<>>)

(* Variant: a signature is synthesized whatever the model version is.     *)
BufferOrSynthesize_mut(s, textContent, mv) ==
    IF s.hasThinkingContent /\ textContent # <<>> /\ ~s.signatureSent
    THEN [state |-> [s EXCEPT !.signatureSent = TRUE],
          out |-> <<Delta("signature", <<CcrMs>>, NullReason, s.contentIndex, Null)>>,
          returns |-> FALSE]
    ELSE [state |-> s, out |-> <<>>, returns |-> FALSE]

(* gemini.util.ts:966-999: text after thinking and before a signature is   *)
(* buffered (and processLine returns) on a model whose version includes    *)
(* "3"; on the other models a signature is synthesized first.              *)
BufferOrSynthesize(s, textContent, mv) ==
    IF s.hasThinkingContent /\ textContent # <<>> /\ ~s.signatureSent
    THEN IF Includes3[mv]
         THEN [state |-> [s EXCEPT !.pendingContent = @ \o textContent],
               out |-> <<>>, returns |-> TRUE]
         ELSE [state |-> [s EXCEPT !.signatureSent = TRUE],
               out |-> <<Delta("signature", <<CcrMs>>, NullReason, s.contentIndex, Null)>>,
               returns |-> FALSE]
    ELSE [state |-> s, out |-> <<>>, returns |-> FALSE]

(* gemini.util.ts:1001-1066: the text of the chunk.                        *)
ContentDelta(s, candidate, textContent, tool_calls) ==
    IF textContent # <<>>
    THEN LET index == IF s.pendingContent = <<>> THEN s.contentIndex + 1
                      ELSE s.contentIndex
         IN  Step([s EXCEPT !.contentIndex = index, !.contentSent = TRUE],
                  <<Delta("content", textContent,
                          getFinishReason(candidate, tool_calls # <<>>), index, Null)>>)
    ELSE Step(s, <<>>)

(* Variant: toolCallIndex is not kept from one chunk to the next.          *)
ToolCallDeltas_mut(s, candidate, tool_calls) ==
    Step([s EXCEPT !.contentIndex = @ + Len(tool_calls)],
         [k \in 1..Len(tool_calls) |->
            Delta("tool_call", tool_calls[k].functionCall,
                  getFinishReason(candidate, TRUE),
                  s.contentIndex + k, s.toolCallIndex + k)])
(* gemini.util.ts:1068-1142: one delta for each function call.             *)
ToolCallDeltas(s, candidate, tool_calls) ==
    Step([s EXCEPT !.contentIndex = @ + Len(tool_calls),
                   !.toolCallIndex = @ + Len(tool_calls)],
         [k \in 1..Len(tool_calls) |->
            Delta("tool_call", tool_calls[k].functionCall,
                  getFinishReason(candidate, TRUE),
                  s.contentIndex + k, s.toolCallIndex + k)])

(* Variant: a line that does not parse discards pendingContent.            *)
processLine_mut(s, l, mv) ==
    IF ~StartsWithData(l) THEN Step(s, <<>>)
    ELSE IF ~JsonParses(l) THEN Step([s EXCEPT !.pendingContent = <<>>], <<>>)
    ELSE IF l.kind = "nocandidates" THEN Step(s, <<>>)   \* 838-841
    ELSE
    LET candidate == l
        parts == candidate.parts
        a == ThinkingDeltas(s, parts)
        b == SignatureDelta(a.state, parts)
        tool_calls == SelectSeq(parts, LAMBDA p : p.functionCall # <<>>)
        textContent ==
            JoinNewline(SelectSeq(parts, LAMBDA p : p.text # <<>> /\ ~p.thought))
        c == BufferOrSynthesize(b.state, textContent, mv)
        d == ContentDelta(c.state, candidate, textContent, tool_calls)
        e == ToolCallDeltas(d.state, candidate, tool_calls)
    IN  IF c.returns THEN Step(c.state, a.out \o b.out \o c.out)
        ELSE Step(e.state, a.out \o b.out \o c.out \o d.out \o e.out)
processLine(s, l, mv) ==
    IF ~StartsWithData(l) THEN Step(s, <<>>)
    ELSE IF ~JsonParses(l) THEN Step(s, <<>>)            \* caught at 1143, logged
    ELSE IF l.kind = "nocandidates" THEN Step(s, <<>>)   \* 838-841
    ELSE
    LET candidate == l
        parts == candidate.parts
        a == ThinkingDeltas(s, parts)
        b == SignatureDelta(a.state, parts)
        tool_calls == SelectSeq(parts, LAMBDA p : p.functionCall # <<>>)
        textContent ==
            JoinNewline(SelectSeq(parts, LAMBDA p : p.text # <<>> /\ ~p.thought))
        c == BufferOrSynthesize(b.state, textContent, mv)
        d == ContentDelta(c.state, candidate, textContent, tool_calls)
        e == ToolCallDeltas(d.state, candidate, tool_calls)
    IN  IF c.returns THEN Step(c.state, a.out \o b.out \o c.out)
        ELSE Step(e.state, a.out \o b.out \o c.out \o d.out \o e.out)

(***************************************************************************)
(* The unary branch (gemini.util.ts:718-809) on the parsed jsonResponse.   *)
(***************************************************************************)
UnaryResponse(jsonResponse) ==
    LET parts == jsonResponse.parts
        thinkingParts == SelectSeq(parts, LAMBDA p : p.text # <<>> /\ p.thought)
        nonThinkingParts == SelectSeq(parts, LAMBDA p : ~(p.text # <<>> /\ p.thought))
        thinkingContent == [i \in 1..Len(thinkingParts) |-> thinkingParts[i].text[1]]
        thinkingSignature == FindSignature(parts)
        tool_calls == SelectSeq(nonThinkingParts, LAMBDA p : p.functionCall # <<>>)
        textContent == JoinNewline(SelectSeq(nonThinkingParts, LAMBDA p : p.text # <<>>))
    IN  [kind |-> "chat.completion",
         finish_reason |-> getFinishReason(jsonResponse, tool_calls # <<>>),
         content |-> textContent,
         tool_calls |-> [k \in 1..Len(tool_calls) |-> tool_calls[k].functionCall],
         thinking |-> IF thinkingSignature # <<>> /\ thinkingContent # <<>>
                      THEN [content |-> thinkingContent, signature |-> thinkingSignature]
                      ELSE [content |-> <<>>, signature |-> <<>>]]

(***************************************************************************)
(* The errors reader.read() rejects with, and what made the read fail:     *)
(* the upstream closed the body early ("premature"), the caller aborted    *)
(* the request ("caller"), anything else ("other").                        *)
(***************************************************************************)
ReadFailure(cause, error) == [cause |-> cause, error |-> error]

ReadFailures ==
    { ReadFailure("premature",
                  Error("Error", "ERR_STREAM_PREMATURE_CLOSE", "Premature close")),
      ReadFailure("premature", Error("Error", NoField, "premature close")),
      ReadFailure("premature", Error("Error", "ECONNRESET", "aborted")),
      ReadFailure("caller", Error("AbortError", NoField, "This operation was aborted")),
      ReadFailure("caller", CallerAbortReason),
      ReadFailure("other", Error("TypeError", NoField, "terminated")),
      ReadFailure("other", Error("Error", "ETIMEDOUT", "read ETIMEDOUT")) }

(* message.includes("premature close"), message.includes("aborted")        *)
IncludesPrematureClose(message) == message \in {"premature close"}
IncludesAborted(message) == message \in {"aborted", "This operation was aborted"}

(* The test of the catch block (gemini.util.ts:1179-1183).                 *)
IsStreamInterruption(error) ==
    \/ error.code = "ERR_STREAM_PREMATURE_CLOSE"
    \/ IncludesPrematureClose(error.message)
    \/ IncludesAborted(error.message)

(***************************************************************************)
(* Suggestion mode (gemini.util.ts:674-706).  The text of a message is a   *)
(* sequence of words and spaces.                                           *)
(***************************************************************************)
SUGGESTION_MODE_MARKER == <<"[SUGGESTION", " ", "MODE:">>
SUGGESTION_MODE_DELAY_MS == 3000

(* text.includes('[SUGGESTION MODE:')                                      *)
IncludesMarker(text) ==
    \E i \in 1..(Len(text) - Len(SUGGESTION_MODE_MARKER) + 1) :
        SubSeq(text, i, i + Len(SUGGESTION_MODE_MARKER) - 1) = SUGGESTION_MODE_MARKER

(* msg.content: a string, or an array of parts with a text.                *)
StringContent(text) == [type |-> "string", texts |-> <<text>>]
ArrayContent(texts) == [type |-> "array", texts |-> texts]

PlainText == <<"fix", " ", "the", " ", "bug">>
SuggestionText ==
    <<"[SUGGESTION", " ", "MODE:", " ", "suggest", " ", "the", " ", "next", " ", "input">>

(* The messages of the original request bodies considered.                 *)
OriginalBodies ==
    { <<StringContent(PlainText)>>,
      <<StringContent(SuggestionText)>>,
      <<StringContent(PlainText), ArrayContent(<<PlainText, SuggestionText>>)>>,
      <<ArrayContent(<<PlainText>>), StringContent(<<"SUGGESTION", " ", "MODE:">>)>> }

(* The fourth argument of transformResponseOut: context.req.body.messages, *)
(* or no context at all.                                                   *)
Context(messages) == [defined |-> TRUE, messages |-> messages]
NoContext == [defined |-> FALSE, messages |-> <<>>]

(* body.messages.some(...) of gemini.util.ts:685-696                       *)
SomeMessageHasMarker(messages) ==
    \E i \in 1..Len(messages) :
        \E j \in 1..Len(messages[i].texts) : IncludesMarker(messages[i].texts[j])

(* gemini.util.ts:679-700                                                  *)
isSuggestionModeRequest(context) ==
    IF ~context.defined THEN FALSE
    ELSE SomeMessageHasMarker(context.messages)

(***************************************************************************)
(* GeminiTransformer.transformResponseOut(response) (part_000:91-93) calls *)
(* transformResponseOut(response, this.name, this.logger): whatever the    *)
(* body of the request was, the fourth argument is not given.              *)
(***************************************************************************)
PassedContext(messages) == NoContext

(* Content-Type values, and .includes("application/json").                 *)
ContentTypes == {"application/json; charset=UTF-8", "text/event-stream"}
IncludesJson(ct) == ct = "application/json; charset=UTF-8"

(***************************************************************************)
(* controller.enqueue of the deltas `out` of one processLine.              *)
(***************************************************************************)
Seen == { p[2] : p \in before }

Enqueue(out) ==
    LET n == Len(out)
        inOrder == { q \in (1..n) \X (1..n) : q[1] < q[2] }
    IN  /\ emitted' = out
        /\ before' = before
               \cup { <<out[q[1]].kind, out[q[2]].kind>> : q \in inOrder }
               \cup { <<k, out[i].kind>> : k \in Seen \cup {"start"}, i \in 1..n }
        /\ signatures' =
               signatures + Cardinality({ i \in 1..n : out[i].kind = "signature" })
        /\ lastFrame' = IF out # <<>> THEN "delta" ELSE lastFrame

(* await processLine(l, controller)                                        *)
ProcessLine(l) ==
    \E r \in {processLine(Closure, l, modelVersion)} :
        /\ signatureSent' = r.state.signatureSent
        /\ contentSent' = r.state.contentSent
        /\ hasThinkingContent' = r.state.hasThinkingContent
        /\ pendingContent' = r.state.pendingContent
        /\ contentIndex' = r.state.contentIndex
        /\ toolCallIndex' = r.state.toolCallIndex
        /\ line' = l
        /\ Enqueue(r.out)

(***************************************************************************)
(* Actions of the translator.                                              *)
(***************************************************************************)
(* gemini.util.ts:718-809                                                  *)
UnaryTransform ==
    /\ gpc = "start"
    /\ IncludesJson(contentType)
    /\ \E jsonResponse \in Chunks(1) :
         /\ line' = jsonResponse
         /\ res' = UnaryResponse(jsonResponse)
    /\ isSuggestion' = isSuggestionModeRequest(PassedContext(originalBody))
    /\ delayMs' = IF isSuggestion' THEN SUGGESTION_MODE_DELAY_MS ELSE 0
    /\ gpc' = "returned"
    /\ UNCHANGED <<contentType, modelVersion, signatureSent, contentSent,
                   hasThinkingContent, pendingContent, contentIndex, toolCallIndex,
                   buffer, controller, nlines, emitted, before, signatures,
                   lastFrame, readEnd, originalBody, terminations>>
    /\ UNCHANGED notGemVars

(* gemini.util.ts:810-825, 1154-1155: the caller stream starts.            *)
OpenStream ==
    /\ gpc = "start"
    /\ ~IncludesJson(contentType)
    /\ isSuggestion' = isSuggestionModeRequest(PassedContext(originalBody))
    /\ gpc' = "reading"
    /\ UNCHANGED <<contentType, modelVersion, signatureSent, contentSent,
                   hasThinkingContent, pendingContent, contentIndex, toolCallIndex,
                   buffer, controller, nlines, line, emitted, before, signatures,
                   lastFrame, readEnd, res, originalBody, delayMs,
                   terminations>>
    /\ UNCHANGED notGemVars

(* gemini.util.ts:1158-1173: a read delivers a line and its "\n".          *)
ReadLine ==
    /\ gpc = "reading"
    /\ buffer = Nothing
    /\ nlines < MaxLines
    /\ \E l \in Lines(nlines + 1) : ProcessLine(l)
    /\ nlines' = nlines + 1
    /\ gpc' = "processed"
    /\ UNCHANGED <<contentType, modelVersion, buffer, controller, readEnd, res,
                   originalBody, isSuggestion, delayMs, terminations>>
    /\ UNCHANGED notGemVars

(* gemini.util.ts:1157-1158: the loop calls reader.read() again.           *)
ReadAgain ==
    /\ gpc = "processed"
    /\ gpc' = "reading"
    /\ line' = Nothing
    /\ emitted' = <<>>
    /\ UNCHANGED <<contentType, modelVersion, signatureSent, contentSent,
                   hasThinkingContent, pendingContent, contentIndex, toolCallIndex,
                   buffer, controller, nlines, before, signatures, lastFrame,
                   readEnd, res, originalBody, isSuggestion, delayMs,
                   terminations>>
    /\ UNCHANGED notGemVars

(***************************************************************************)
(* gemini.util.ts:1159-1164, 1197-1204: the upstream body ends.  buffer    *)
(* holds the last line when the upstream did not end it with "\n"; "" is   *)
(* not processed.                                                          *)
(***************************************************************************)
ReadDone ==
    /\ gpc = "reading"
    /\ \/ /\ buffer' = Nothing
          /\ line' = Nothing
          /\ emitted' = <<>>
          /\ UNCHANGED <<signatureSent, contentSent, hasThinkingContent,
                         pendingContent, contentIndex, toolCallIndex, before,
                         signatures, lastFrame, nlines>>
       \/ /\ nlines < MaxLines
          /\ \E l \in Lines(nlines + 1) :
               /\ l.kind # "blank"
               /\ buffer' = l
               /\ ProcessLine(l)
          /\ nlines' = nlines + 1
    /\ controller' = "closed"
    /\ terminations' = <<"close">>
    /\ readEnd' = "done"
    /\ delayMs' = IF isSuggestion THEN SUGGESTION_MODE_DELAY_MS ELSE 0
    /\ gpc' = "ended"
    /\ UNCHANGED <<contentType, modelVersion, res, originalBody, isSuggestion>>
    /\ UNCHANGED notGemVars

(***************************************************************************)
(* gemini.util.ts:1175-1204: reader.read() rejects.  After                 *)
(* controller.error(error) the controller.close() of the finally block     *)
(* throws and the caller stream stays errored.                             *)
(***************************************************************************)
ReadFail ==
    /\ gpc = "reading"
    /\ \E f \in ReadFailures :
         /\ readEnd' = f.cause
         /\ IF IsStreamInterruption(f.error)
            THEN /\ lastFrame' = "done"
                 /\ controller' = "closed"
                 /\ terminations' = <<"close">>
            ELSE /\ controller' = "errored"
                 /\ terminations' = <<"error", "close">>
                 /\ UNCHANGED lastFrame
    /\ line' = Nothing
    /\ emitted' = <<>>
    /\ delayMs' = IF isSuggestion THEN SUGGESTION_MODE_DELAY_MS ELSE 0
    /\ gpc' = "ended"
    /\ UNCHANGED <<contentType, modelVersion, signatureSent, contentSent,
                   hasThinkingContent, pendingContent, contentIndex, toolCallIndex,
                   buffer, nlines, before, signatures, res, originalBody,
                   isSuggestion>>
    /\ UNCHANGED notGemVars

GeminiInit ==
    /\ RequestIdle
    /\ BuildIdle
    /\ RoundTripIdle
    /\ KeyIdle
    /\ AdapterIdle
    /\ AuthIdle
    /\ gpc = "start"
    /\ contentType \in ContentTypes
    /\ modelVersion \in ModelVersions
    /\ signatureSent = FALSE
    /\ contentSent = FALSE
    /\ hasThinkingContent = FALSE
    /\ pendingContent = <<>>
    /\ contentIndex = 0
    /\ toolCallIndex = -1
    /\ buffer = Nothing
    /\ controller = "open"
    /\ nlines = 0
    /\ line = Nothing
    /\ emitted = <<>>
    /\ before = {}
    /\ signatures = 0
    /\ lastFrame = "none"
    /\ readEnd = "none"
    /\ res = Nothing
    /\ originalBody \in OriginalBodies
    /\ isSuggestion = FALSE
    /\ delayMs = 0
    /\ terminations = <<>>

GeminiNext ==
    \/ UnaryTransform
    \/ OpenStream
    \/ ReadLine
    \/ ReadAgain
    \/ ReadDone
    \/ ReadFail

GeminiSpec == GeminiInit /\ [][GeminiNext]_vars

(***************************************************************************)
(* Properties of the streaming translator.                                 *)
(***************************************************************************)
(* What a chunk carries.                                                   *)
HasFunctionCall(l) == \E i \in 1..Len(l.parts) : l.parts[i].functionCall # <<>>
HasThought(l) == \E i \in 1..Len(l.parts) : l.parts[i].text # <<>> /\ l.parts[i].thought
TextOf(l) ==
    JoinNewline(SelectSeq(l.parts, LAMBDA p : p.text # <<>> /\ ~p.thought))
KindsOf(out) == [i \in 1..Len(out) |-> out[i].kind]

(* C11: on one stream the translator enqueues at most one                  *)
(* thinking.signature delta, upstream or synthesized.                      *)
C11_AtMostOneSignature == signatures <= 1

(* A signature delta went out and a later chunk that carries a             *)
(* thoughtSignature was translated without a second one.                   *)
C11_Witness ==
    /\ signatures = 1
    /\ gpc = "processed"
    /\ line.kind = "chunk"
    /\ FindSignature(line.parts) # <<>>
    /\ \A i \in 1..Len(emitted) : emitted[i].kind # "signature"

(* C12: a signature delta, when there is one, precedes every text-content  *)
(* delta and every tool-call delta of the stream.                          *)
C12_SignatureFirst ==
    /\ <<"content", "signature">> \notin before
    /\ <<"tool_call", "signature">> \notin before

(* C13: deltas come in the order thinking, signature, text content, tool   *)
(* calls: no thinking delta after the signature delta, no text-content     *)
(* delta after a tool-call delta.                                          *)
C13_GlobalOrder ==
    /\ <<"signature", "thinking">> \notin before
    /\ <<"tool_call", "content">> \notin before

(* C14: when the upstream body ends normally, the last frame enqueued      *)
(* before the caller stream closes is `data: [DONE]`.                      *)
C14_DoneIsLastFrame ==
    (gpc = "ended" /\ readEnd = "done") => lastFrame = "done"

(* C15: a premature close of the upstream body ends the caller stream      *)
(* with `data: [DONE]` as last frame and no error; a read that fails for   *)
(* any other reason leaves it errored, without `[DONE]`.                   *)
C15_ReadErrors ==
    /\ (gpc = "ended" /\ readEnd = "premature") =>
           (lastFrame = "done" /\ controller = "closed")
    /\ (gpc = "ended" /\ readEnd \in {"caller", "other"}) =>
           (lastFrame # "done" /\ controller = "errored")

(* C16: when the read fails because the caller aborted, no `data: [DONE]`  *)
(* is enqueued on the caller stream.                                       *)
C16_CallerAbortNoDone ==
    (gpc = "ended" /\ readEnd = "caller") => lastFrame # "done"

(***************************************************************************)
(* C17: on a gemini-3 stream, text that arrives after thinking content and *)
(* before any signature is not enqueued when received but appended to      *)
(* pendingContent; the chunk that brings the signature enqueues the        *)
(* signature delta, then at once one content delta with all of             *)
(* pendingContent, then its own text.                                      *)
(***************************************************************************)
C17_Step ==
    (gpc = "reading" /\ Includes3[modelVersion] /\ line'.kind = "chunk") =>
        LET l == line'
            out == emitted'
            afterThinking == "thinking" \in Seen \/ HasThought(l)
            noSignatureYet == signatures = 0 /\ FindSignature(l.parts) = <<>>
            ownText == IF TextOf(l) # <<>> THEN <<"content">> ELSE <<>>
            ownCalls == SelectSeq(KindsOf(out), LAMBDA k : k = "tool_call")
            thoughts == SelectSeq(KindsOf(out), LAMBDA k : k = "thinking")
        IN  /\ (afterThinking /\ noSignatureYet /\ TextOf(l) # <<>>) =>
                   /\ \A i \in 1..Len(out) : out[i].kind # "content"
                   /\ pendingContent' = pendingContent \o TextOf(l)
            /\ (pendingContent # <<>> /\ FindSignature(l.parts) # <<>>) =>
                   /\ KindsOf(out) =
                          thoughts \o <<"signature", "content">> \o ownText \o ownCalls
                   /\ out[Len(thoughts) + 2].text = pendingContent
                   /\ ownText # <<>> => out[Len(thoughts) + 3].text = TextOf(l)
                   /\ pendingContent' = <<>>

C17_PendingContentAfterSignature == [][C17_Step]_vars

(* Chunks [thought, text] and then [signature, text] on a gemini-3 stream: *)
(* the second enqueues the signature, the text of the first, its own text. *)
C17_Witness ==
    /\ Includes3[modelVersion]
    /\ gpc = "processed"
    /\ nlines = 2
    /\ <<"thinking", "signature">> \in before
    /\ KindsOf(emitted) = <<"signature", "content", "content">>
    /\ emitted[1].text = <<Token(2, 1)>>
    /\ emitted[2].text = <<Token(1, 2)>>
    /\ emitted[3].text = <<Token(2, 2)>>
    /\ pendingContent = <<>>

(***************************************************************************)
(* C18: a response (unary, or a streamed chunk) with a functionCall part   *)
(* and finishReason STOP reaches the caller with finish_reason             *)
(* "tool_calls"; without functionCall the finish_reason is the lower-cased *)
(* upstream finishReason.  Thinking and signature deltas carry null.       *)
(***************************************************************************)
LowerCased(finishReason) ==
    IF finishReason = NoField THEN NullReason ELSE ToLowerCase[finishReason]

C18_FinishReason ==
    /\ gpc = "returned" =>
           /\ (HasFunctionCall(line) /\ line.finishReason = "STOP") =>
                  res.finish_reason = "tool_calls"
           /\ ~HasFunctionCall(line) =>
                  res.finish_reason = LowerCased(line.finishReason)
    /\ (gpc \in {"processed", "ended"} /\ line.kind = "chunk") =>
           /\ (HasFunctionCall(line) /\ line.finishReason = "STOP") =>
                  /\ \E i \in 1..Len(emitted) : emitted[i].finish_reason = "tool_calls"
                  /\ \A i \in 1..Len(emitted) :
                       emitted[i].finish_reason \in {NullReason, "tool_calls"}
           /\ ~HasFunctionCall(line) =>
                  \A i \in 1..Len(emitted) :
                     emitted[i].finish_reason
                         \in {NullReason, LowerCased(line.finishReason)}

(***************************************************************************)
(* C26: a data line whose payload is not valid JSON enqueues nothing and   *)
(* leaves signatureSent, contentSent, hasThinkingContent, pendingContent,  *)
(* contentIndex and toolCallIndex unchanged; the caller stream stays open  *)
(* and the read loop goes on, so a later chunk meets the state it would    *)
(* have met without the line.                                              *)
(***************************************************************************)
C26_Step ==
    (gpc = "reading" /\ gpc' = "processed" /\ line'.kind \in {"invalid", "done"}) =>
        /\ emitted' = <<>>
        /\ UNCHANGED <<signatureSent, contentSent, hasThinkingContent,
                       pendingContent, contentIndex, toolCallIndex>>
        /\ UNCHANGED <<before, signatures, lastFrame>>
        /\ controller' = "open"
        /\ readEnd' = "none"

C26_InvalidJsonSkipped == [][C26_Step]_vars

(* A line that does not parse arrives second, while text is pending after  *)
(* thinking: the text stays pending and the stream stays open.             *)
C26_Witness ==
    /\ gpc = "processed"
    /\ nlines = 2
    /\ line.kind = "invalid"
    /\ hasThinkingContent
    /\ pendingContent # <<>>
    /\ emitted = <<>>
    /\ controller = "open"

ToolCallsOf(out) == SelectSeq(out, LAMBDA d : d.kind = "tool_call")

(***************************************************************************)
(* C28, as claimed: every tool-call delta has finish_reason "tool_calls",  *)
(* whatever the finishReason of the upstream candidate is.                 *)
(***************************************************************************)
C28_AsClaimed ==
    \A i \in 1..Len(emitted) :
        emitted[i].kind = "tool_call" => emitted[i].finish_reason = "tool_calls"

(***************************************************************************)
(* C28, amended: a tool-call delta has finish_reason "tool_calls" when the *)
(* finishReason of the upstream candidate is STOP; otherwise it has the    *)
(* lower-cased upstream finishReason, and null when the chunk carries no   *)
(* finishReason.                                                           *)
(***************************************************************************)
C28_ToolCallFinishReason ==
    (gpc \in {"processed", "ended"} /\ line.kind = "chunk") =>
        \A i \in 1..Len(emitted) :
            emitted[i].kind = "tool_call" =>
                emitted[i].finish_reason =
                    IF line.finishReason = "STOP" THEN "tool_calls"
                    ELSE IF line.finishReason = NoField THEN NullReason
                    ELSE ToLowerCase[line.finishReason]

(* A chunk with a functionCall and no finishReason: the tool-call delta    *)
(* carries null.                                                           *)
C28_Witness ==
    /\ gpc = "processed"
    /\ line.kind = "chunk"
    /\ line.finishReason = NoField
    /\ ToolCallsOf(emitted) # <<>>
    /\ ToolCallsOf(emitted)[1].finish_reason = NullReason

(***************************************************************************)
(* C29: the tool-call deltas of a stream carry tool_calls[0].index 0, 1,   *)
(* 2, ... in the order they are enqueued, across chunks; the choice index  *)
(* of the deltas never decreases, and that of a tool-call delta is greater *)
(* than that of every delta enqueued before it.  Stated for one step, with *)
(* contentIndex the greatest choice index so far and toolCallIndex + 1 the *)
(* number of tool-call deltas so far.                                      *)
(***************************************************************************)
C29_Step ==
    (gpc \in {"start", "reading"} /\ gpc' \in {"reading", "processed", "ended"}) =>
        LET out == emitted'
            calls == ToolCallsOf(out)
        IN  /\ gpc = "start" => contentIndex' = 0 /\ toolCallIndex' = -1 /\ out = <<>>
            /\ \A k \in 1..Len(calls) : calls[k].tool = toolCallIndex + k
            /\ toolCallIndex' = toolCallIndex + Len(calls)
            /\ \A i \in 1..Len(out) :
                  /\ out[i].index >= contentIndex
                  /\ out[i].index <= contentIndex'
                  /\ \A j \in 1..(i - 1) : out[j].index <= out[i].index
                  /\ out[i].kind = "tool_call" =>
                        /\ out[i].index > contentIndex
                        /\ \A j \in 1..(i - 1) : out[j].index < out[i].index

C29_Indexes == [][C29_Step]_vars

(* The second chunk brings the third tool call of the stream.              *)
C29_Witness ==
    /\ gpc = "processed"
    /\ nlines = 2
    /\ \E i \in 1..Len(emitted) :
          /\ emitted[i].kind = "tool_call"
          /\ emitted[i].tool = 2
          /\ emitted[i].index >= 3

(***************************************************************************)
(* C27: when a message of the original request body contains               *)
(* "[SUGGESTION MODE:", the caller stream is closed, or the unary response *)
(* returned, only after the delay of 3000 ms; for every other request      *)
(* there is no delay.                                                      *)
(***************************************************************************)
C27_SuggestionDelayed ==
    gpc \in {"ended", "returned"} =>
        delayMs = IF SomeMessageHasMarker(originalBody)
                  THEN SUGGESTION_MODE_DELAY_MS ELSE 0

FunctionCallsOf(l) == SelectSeq(l.parts, LAMBDA p : p.functionCall # <<>>)

(***************************************************************************)
(* C38: when the caller stream is closed after a normal end of the         *)
(* upstream, every text received has been emitted: pendingContent is       *)
(* empty, also on a gemini-3 stream on which no thoughtSignature arrived.  *)
(***************************************************************************)
C38_NothingPendingAtClose ==
    (gpc = "ended" /\ readEnd = "done") => pendingContent = <<>>

(***************************************************************************)
(* C39: every functionCall part of a valid chunk gives exactly one         *)
(* tool-call delta, enqueued while that chunk is processed, in the order   *)
(* of the parts, whatever hasThinkingContent, signatureSent and the model  *)
(* version are.                                                            *)
(***************************************************************************)
C39_EveryFunctionCallEmitted ==
    (gpc \in {"processed", "ended"} /\ line.kind = "chunk") =>
        LET calls == FunctionCallsOf(line)
            deltas == ToolCallsOf(emitted)
        IN  /\ Len(deltas) = Len(calls)
            /\ \A k \in 1..Len(calls) : deltas[k].text = calls[k].functionCall

(***************************************************************************)
(* C40: on every path the caller stream is terminated exactly once:        *)
(* exactly one of controller.close() and controller.error() is called,     *)
(* and close() is never called after error().                              *)
(***************************************************************************)
C40_TerminatedOnce ==
    /\ gpc = "ended" => terminations \in {<<"close">>, <<"error">>}
    /\ gpc \in {"start", "reading", "processed"} => terminations = <<>>

(***************************************************************************)
(* Part 3: the tools of the Gemini request body, buildRequestBody and      *)
(* tTool (packages/core/src/utils/gemini.util.ts:113-240, 331-358).        *)
(***************************************************************************)
(* Tools in one request.                                                   *)
MaxTools == 2

(* JSON values: a string, an object (a function from its keys to JSON      *)
(* values) and undefined.                                                  *)
JStr(str) == [type |-> "string", str |-> str, obj |-> <<>>]
JObj(obj) == [type |-> "object", str |-> "", obj |-> obj]
Undefined == [type |-> "undefined", str |-> "", obj |-> <<>>]

(* Object.keys(v)                                                          *)
Keys(v) == IF v.type = "object" THEN DOMAIN v.obj ELSE {}

(* v has a key named k, at any depth.                                      *)
RECURSIVE HasKeyNamed(_, _)
HasKeyNamed(v, k) ==
    \/ k \in Keys(v)
    \/ \E x \in Keys(v) : HasKeyNamed(v.obj[x], k)

Draft07 == JStr("http://json-schema.org/draft-07/schema#")
StringSchema == JObj("type" :> JStr("string"))

(* tool.function.parameters of the tools of the model.                     *)
Schemas ==
    { Undefined,
      JObj(("type" :> JStr("object")) @@
           ("properties" :> JObj("path" :> StringSchema))),
      JObj(("$schema" :> Draft07) @@ ("type" :> JStr("object")) @@
           ("properties" :> JObj("path" :> StringSchema)) @@
           ("additionalProperties" :> JStr("false"))),
      JObj(("type" :> JStr("object")) @@
           ("properties" :>
              JObj("options" :> JObj(("$schema" :> Draft07) @@
                                     ("type" :> JStr("object")))))),
      JObj(("type" :> JStr("object")) @@
           ("properties" :> JObj("$schema" :> StringSchema))) }

UnifiedTool(name, description, parameters) ==
    [type |-> "function",
     function |-> [name |-> name, description |-> description,
                   parameters |-> parameters]]

ToolNames == {"Read", "web_search"}

UnifiedTools == { UnifiedTool(n, "d", ps) : n \in ToolNames, ps \in Schemas }

ToolSeqs == UNION { [1..k -> UnifiedTools] : k \in 0..MaxTools }

(* fieldValue.toUpperCase(), kept when it is a value of Type               *)
(* (gemini.util.ts:164-167).                                               *)
UpperCaseType == ("object" :> "OBJECT") @@ ("string" :> "STRING")
GenAIType(t) ==
    IF t \in DOMAIN UpperCaseType THEN UpperCaseType[t] ELSE "TYPE_UNSPECIFIED"

(* processJsonSchema (gemini.util.ts:115-201) on schemas without anyOf and *)
(* without type arrays.                                                    *)
RECURSIVE processJsonSchema(_)
processJsonSchema(jsonSchema) ==
    JObj([fieldName \in Keys(jsonSchema) \ {"additionalProperties"} |->
            LET fieldValue == jsonSchema.obj[fieldName]
            IN  IF fieldName = "type" THEN JStr(GenAIType(fieldValue.str))
                ELSE IF fieldName = "items" THEN processJsonSchema(fieldValue)
                ELSE IF fieldName = "properties"
                THEN JObj([key \in Keys(fieldValue) |->
                             processJsonSchema(fieldValue.obj[key])])
                ELSE fieldValue])

FunctionDeclaration(name, description, parameters, parametersJsonSchema) ==
    [name |-> name, description |-> description, parameters |-> parameters,
     parametersJsonSchema |-> parametersJsonSchema]

(* tTool (gemini.util.ts:208-240) on one functionDeclaration; the block    *)
(* for functionDeclaration.response is the same code on a field that       *)
(* buildRequestBody does not set.                                          *)
tToolDeclaration(fd) ==
    IF fd.parameters.type # "undefined"
    THEN IF "$schema" \notin Keys(fd.parameters)
         THEN [fd EXCEPT !.parameters = processJsonSchema(fd.parameters)]
         ELSE IF fd.parametersJsonSchema.type = "undefined"
         THEN [fd EXCEPT !.parametersJsonSchema = fd.parameters,
                         !.parameters = Undefined]
         ELSE fd
    ELSE fd

tTool(tool) ==
    [tool EXCEPT !.functionDeclarations =
        [i \in 1..Len(tool.functionDeclarations) |->
            tToolDeclaration(tool.functionDeclarations[i])]]

(* An entry of body.tools.                                                 *)
FunctionTools(functionDeclarations) ==
    [functionDeclarations |-> functionDeclarations, googleSearch |-> FALSE]
GoogleSearchTool == [functionDeclarations |-> <<>>, googleSearch |-> TRUE]

(* buildRequestBody (gemini.util.ts:334-358): the tools of the body.       *)
buildRequestBodyTools(requestTools) ==
    LET kept == SelectSeq(requestTools, LAMBDA t : t.function.name # "web_search")
        functionDeclarations ==
            [i \in 1..Len(kept) |->
                FunctionDeclaration(kept[i].function.name,
                                    kept[i].function.description,
                                    Undefined,
                                    kept[i].function.parameters)]
        webSearch ==
            SelectSeq(requestTools, LAMBDA t : t.function.name = "web_search")
    IN  (IF Len(functionDeclarations) > 0
         THEN <<tTool(FunctionTools(functionDeclarations))>> ELSE <<>>)
        \o (IF webSearch # <<>> THEN <<GoogleSearchTool>> ELSE <<>>)

(***************************************************************************)
(* C19: no key named $schema anywhere under the parameters or the          *)
(* parametersJsonSchema of a functionDeclaration of the built body.        *)
(***************************************************************************)
C19_NoSchemaKey ==
    bpc = "built" =>
        \A t \in 1..Len(bodyTools) :
            \A i \in 1..Len(bodyTools[t].functionDeclarations) :
                LET fd == bodyTools[t].functionDeclarations[i]
                IN  /\ ~HasKeyNamed(fd.parameters, "$schema")
                    /\ ~HasKeyNamed(fd.parametersJsonSchema, "$schema")

(***************************************************************************)
(* Part 4: an OpenAI request through OpenAITransformer.transformRequestOut *)
(* (packages/core/src/transformer/openai.transformer.ts:23-175) and        *)
(* OpenAICompatibleTransformer.transformRequestIn (156-193, 313-379 of the *)
(* transformer source kept as src/unnamed/part_000).                       *)
(***************************************************************************)
(* Messages in one request.                                                *)
MaxMessages == 2

(* msg.content: a string (the sequence of its tokens), an array of parts,  *)
(* or null.                                                                *)
CStr(tokens) == [type |-> "string", str |-> tokens, parts |-> <<>>]
CArr(parts) == [type |-> "array", str |-> <<>>, parts |-> parts]
CNull == [type |-> "null", str |-> <<>>, parts |-> <<>>]
(* JSON.stringify(msg.content) of an array: the string that spells it.     *)
CJson(parts) == [type |-> "string", str |-> <<"JSON.stringify">>, parts |-> parts]

TextPart(text, cache_control) ==
    [type |-> "text", text |-> text, cache_control |-> cache_control]

ToolCall(id, name, arguments) ==
    [id |-> id, type |-> "function",
     function |-> [name |-> name, arguments |-> arguments]]

(* A message; tool_calls <<>> and tool_call_id NoField: not set.           *)
Message(role, content, tool_calls, tool_call_id) ==
    [role |-> role, content |-> content, tool_calls |-> tool_calls,
     tool_call_id |-> tool_call_id, thinking |-> NoField]

(* A message with thinking: { signature }.                                 *)
ThinkingMessage(role, content, tool_calls, signature) ==
    [Message(role, content, tool_calls, NoField) EXCEPT !.thinking = signature]

Call1 == ToolCall("call_1", "Read", "{\"path\":\"a\"}")

OpenAIMessages ==
    { Message("system", CStr(<<"be brief">>), <<>>, NoField),
      Message("user", CStr(<<"hi">>), <<>>, NoField),
      Message("user", CArr(<<TextPart("hi", "ephemeral")>>), <<>>, NoField),
      Message("assistant", CStr(<<"ok">>), <<>>, NoField),
      Message("assistant", CStr(<<"reading">>), <<Call1>>, NoField),
      Message("assistant", CNull, <<Call1>>, NoField),
      Message("assistant", CArr(<<TextPart("a", NoField), TextPart("b", NoField)>>),
              <<>>, NoField),
      Message("tool", CStr(<<"contents">>), <<>>, "call_1"),
      Message("tool", CArr(<<TextPart("contents", NoField)>>), <<>>, "call_1") }

MessageSeqs == UNION { [1..k -> OpenAIMessages] : k \in 0..MaxMessages }

OpenAITool(description, parameters) ==
    [type |-> "function",
     function |-> [name |-> "Read", description |-> description,
                   parameters |-> parameters]]

OpenAIToolLists ==
    { <<>>, <<OpenAITool(NoField, JObj("type" :> JStr("object")))>> }
    \cup { <<OpenAITool("reads a file", p)>> : p \in Schemas \ {Undefined} }

OpenAIRequest(messages, tools, tool_choice, temperature, streaming) ==
    [kind |-> "request", messages |-> messages, tools |-> tools,
     tool_choice |-> tool_choice, temperature |-> temperature,
     stream |-> streaming]

OpenAIRequests ==
    { OpenAIRequest(ms, ts, tc, 7, st) :
        ms \in MessageSeqs, ts \in OpenAIToolLists, tc \in {NoField, "auto"},
        st \in BOOLEAN }

(* .map(text => text.text).join("\n")                                      *)
RECURSIVE JoinTexts(_)
JoinTexts(parts) ==
    IF parts = <<>> THEN <<>>
    ELSE IF Len(parts) = 1 THEN <<parts[1].text>>
    ELSE <<parts[1].text, "\n">> \o JoinTexts(Tail(parts))

(* openai.transformer.ts:57-136: what one message of the request adds to   *)
(* the unified messages.  The parts of the model are text parts, so an     *)
(* assistant message with array content has no tool_calls part to collect. *)
UnifiedMessages(msg) ==
    IF msg.role \notin {"user", "assistant", "tool"} THEN <<>>
    ELSE IF msg.content.type = "string"
    THEN <<Message(msg.role, msg.content, <<>>, NoField)>>
    ELSE IF msg.content.type = "array"
    THEN IF msg.role = "user"
         THEN LET textAndMediaParts ==
                      SelectSeq(msg.content.parts,
                                LAMBDA c : \/ c.type = "text" /\ c.text # ""
                                           \/ c.type = "image_url")
              IN  IF textAndMediaParts # <<>>
                  THEN <<Message("user", CArr(textAndMediaParts), <<>>, NoField)>>
                  ELSE <<>>
         ELSE IF msg.role = "assistant"
         THEN LET textParts ==
                      SelectSeq(msg.content.parts,
                                LAMBDA c : c.type = "text" /\ c.text # "")
              IN  <<Message("assistant", CStr(JoinTexts(textParts)), <<>>, NoField)>>
         ELSE <<Message("tool", CJson(msg.content.parts), <<>>, msg.tool_call_id)>>
    ELSE <<>>

RECURSIVE FlatMapMessages(_)
FlatMapMessages(messages) ==
    IF messages = <<>> THEN <<>>
    ELSE UnifiedMessages(Head(messages)) \o FlatMapMessages(Tail(messages))

(* description || ""                                                       *)
OrEmptyString(description) == IF description = NoField THEN "" ELSE description

(* openai.transformer.ts:157-175                                           *)
convertToolsToUnified(tools) ==
    [i \in 1..Len(tools) |->
        [type |-> "function",
         function |-> [name |-> tools[i].function.name,
                       description |-> OrEmptyString(tools[i].function.description),
                       parameters |-> tools[i].function.parameters]]]

(* openai.transformer.ts:23-155                                            *)
transformRequestOut(request) ==
    [kind |-> "request",
     messages |-> FlatMapMessages(request.messages),
     tools |-> IF Len(request.tools) > 0 THEN convertToolsToUnified(request.tools)
               ELSE <<>>,
     tool_choice |-> request.tool_choice,
     temperature |-> request.temperature,
     stream |-> request.stream]

(* description || []                                                       *)
EmptyArray == "<empty array>"
OrEmptyArray(description) ==
    IF description \in {NoField, ""} THEN EmptyArray ELSE description

(* { ...v } with delete v[k]                                               *)
DeleteKey(v, k) == JObj([x \in Keys(v) \ {k} |-> v.obj[x]])

(* part_000:326-337: the top-level $schema key and the property named      *)
(* $schema are deleted; nothing below is visited.                          *)
WithoutSchema(parameters) ==
    LET copy == DeleteKey(parameters, "$schema")
    IN  IF "properties" \in Keys(copy)
        THEN JObj([copy.obj EXCEPT
                     !["properties"] = DeleteKey(copy.obj["properties"], "$schema")])
        ELSE copy

(* part_000:313-344                                                        *)
convertUnifiedToolsToOpenAI(tools) ==
    [i \in 1..Len(tools) |->
        [type |-> tools[i].type,
         function |->
            [name |-> tools[i].function.name,
             description |-> OrEmptyArray(tools[i].function.description),
             parameters |->
                IF tools[i].function.parameters.type = "undefined" THEN Undefined
                ELSE WithoutSchema(tools[i].function.parameters)]]]

(* const { cache_control, ...rest } = item                                 *)
Rest(item) == [item EXCEPT !.cache_control = NoField]

(* part_000:346-379                                                        *)
convertMessagesToOpenAI(messages) ==
    [i \in 1..Len(messages) |->
        LET msg == messages[i]
        IN  Message(msg.role,
                    IF msg.content.type = "string" THEN msg.content
                    ELSE IF msg.content.type = "array"
                    THEN CArr([j \in 1..Len(msg.content.parts) |->
                                  Rest(msg.content.parts[j])])
                    ELSE [type |-> "undefined", str |-> <<>>, parts |-> <<>>],
                    [j \in 1..Len(msg.tool_calls) |->
                        ToolCall(msg.tool_calls[j].id,
                                 msg.tool_calls[j].function.name,
                                 msg.tool_calls[j].function.arguments)],
                    IF msg.tool_call_id = "" THEN NoField ELSE msg.tool_call_id)]

(* part_000:156-193                                                        *)
transformRequestIn(request) ==
    [kind |-> "request",
     messages |-> convertMessagesToOpenAI(request.messages),
     tools |-> IF Len(request.tools) > 0
               THEN convertUnifiedToolsToOpenAI(request.tools) ELSE <<>>,
     tool_choice |-> IF request.tool_choice = "" THEN NoField
                     ELSE request.tool_choice,
     temperature |-> request.temperature,
     stream |-> request.stream]

TransformRequestOut ==
    /\ UNCHANGED notRoundTripVars
    /\ rpc = "start"
    /\ unified' = transformRequestOut(openaiIn)
    /\ rpc' = "unified"
    /\ UNCHANGED <<openaiIn, openaiRequest>>

TransformRequestIn ==
    /\ UNCHANGED notRoundTripVars
    /\ rpc = "unified"
    /\ openaiRequest' = transformRequestIn(unified)
    /\ rpc' = "openai"
    /\ UNCHANGED <<openaiIn, unified>>

RoundTripInit ==
    /\ RequestIdle /\ GeminiIdle /\ BuildIdle
    /\ KeyIdle
    /\ AdapterIdle
    /\ AuthIdle
    /\ rpc = "start"
    /\ openaiIn \in OpenAIRequests
    /\ unified = Nothing
    /\ openaiRequest = Nothing

RoundTripNext == TransformRequestOut \/ TransformRequestIn

RoundTripSpec == RoundTripInit /\ [][RoundTripNext]_vars

(* Every key named $schema removed, at any depth.                          *)
RECURSIVE StripSchema(_)
StripSchema(v) ==
    IF v.type = "object"
    THEN JObj([x \in Keys(v) \ {"$schema"} |-> StripSchema(v.obj[x])])
    ELSE v

(* r with the cache_control fields removed and the $schema keys stripped.  *)
UpToCacheControlAndSchema(r) ==
    [r EXCEPT
       !.messages =
           [i \in 1..Len(r.messages) |->
               IF r.messages[i].content.type = "array"
               THEN [r.messages[i] EXCEPT
                       !.content.parts =
                           [j \in 1..Len(r.messages[i].content.parts) |->
                               Rest(r.messages[i].content.parts[j])]]
               ELSE r.messages[i]],
       !.tools =
           [i \in 1..Len(r.tools) |->
               [r.tools[i] EXCEPT
                  !.function.parameters = StripSchema(r.tools[i].function.parameters)]]]

(***************************************************************************)
(* C20: for every OpenAI-shaped request r, transformRequestIn of           *)
(* transformRequestOut of r has the same messages (order, roles, contents, *)
(* tool_calls, tool_call_id), tools, tool_choice, temperature and stream   *)
(* as r, except that cache_control fields are removed and $schema keys are *)
(* stripped.                                                               *)
(***************************************************************************)
C20_RoundTrip ==
    rpc = "openai" =>
        LET want == UpToCacheControlAndSchema(openaiIn)
        IN  /\ openaiRequest.messages = want.messages
            /\ openaiRequest.tools = want.tools
            /\ openaiRequest.tool_choice = want.tool_choice
            /\ openaiRequest.temperature = want.temperature
            /\ openaiRequest.stream = want.stream

ToolMessages(messages) == SelectSeq(messages, LAMBDA m : m.role = "tool")

(***************************************************************************)
(* C33: the role:tool messages that OpenAITransformer.transformRequestOut  *)
(* produces are those of the input, none dropped, and each carries the     *)
(* tool_call_id of the input message it was built from, for string and for *)
(* array content.                                                          *)
(***************************************************************************)
C33_ToolCallIdKept ==
    rpc \in {"unified", "openai"} =>
        LET ins == ToolMessages(openaiIn.messages)
            outs == ToolMessages(unified.messages)
        IN  /\ Len(outs) = Len(ins)
            /\ \A i \in 1..Len(ins) : outs[i].tool_call_id = ins[i].tool_call_id

(***************************************************************************)
(* C32: the parameters of every tool definition that                       *)
(* OpenAICompatibleTransformer.transformRequestIn emits have no $schema    *)
(* key at their root and none inside an entry of parameters.properties;    *)
(* every other key of parameters is copied unchanged.                      *)
(***************************************************************************)
C32_SchemaStripped ==
    rpc = "openai" =>
        \A i \in 1..Len(openaiRequest.tools) :
            LET p == openaiRequest.tools[i].function.parameters
                q == unified.tools[i].function.parameters
            IN  p.type = "object" =>
                  /\ "$schema" \notin Keys(p)
                  /\ "properties" \in Keys(p) =>
                        \A x \in Keys(p.obj["properties"]) :
                            "$schema" \notin Keys(p.obj["properties"].obj[x])
                  /\ \A k \in Keys(q) \ {"$schema", "properties"} :
                        k \in Keys(p) /\ p.obj[k] = q.obj[k]

(***************************************************************************)
(* Part 5: the API key of GeminiTransformer.transformRequestIn             *)
(* (src/unnamed/part_000:11-87): resolveApiKey and the cached keychain     *)
(* lookup.                                                                 *)
(***************************************************************************)
(* Calls of transformRequestIn in one process.                             *)
MaxKeyCalls == 2

Whitespace == {" ", "\n"}

RECURSIVE TrimStart(_)
TrimStart(chars) ==
    IF chars # <<>> /\ Head(chars) \in Whitespace THEN TrimStart(Tail(chars))
    ELSE chars

RECURSIVE TrimEnd(_)
TrimEnd(chars) ==
    IF chars # <<>> /\ chars[Len(chars)] \in Whitespace
    THEN TrimEnd(SubSeq(chars, 1, Len(chars) - 1))
    ELSE chars

(* String.prototype.trim                                                   *)
Trim(chars) == TrimEnd(TrimStart(chars))

(* String.prototype.startsWith                                             *)
StartsWith(chars, prefix) ==
    /\ Len(chars) >= Len(prefix)
    /\ SubSeq(chars, 1, Len(prefix)) = prefix

(* A string value in a condition: undefined, null and "" are falsy.        *)
Truthy(s) == s.defined /\ s.chars # <<>>

YOUR_ == <<"Y", "O", "U", "R", "_">>
FROM_KEYCHAIN ==
    <<"F", "R", "O", "M", "_", "K", "E", "Y", "C", "H", "A", "I", "N">>

(* Values of process.env.GEMINI_API_KEY.                                   *)
EnvValues ==
    { NoStr, Str(<<>>), Str(<<" ">>), Str(<<" ", "e", "\n">>), Str(<<"e">>) }

Platforms == {"darwin", "linux"}

(* What execSync("security find-generic-password ...") does: it throws or  *)
(* gives the output of the command.                                        *)
SecurityOutcome(kind, chars) == [kind |-> kind, chars |-> chars]
SecurityOutcomes ==
    { SecurityOutcome("throws", <<>>),
      SecurityOutcome("output", <<>>),
      SecurityOutcome("output", <<"\n">>),
      SecurityOutcome("output", <<"k", "\n">>),
      SecurityOutcome("output", <<"q", "\n">>) }

(* Values of provider.apiKey.                                              *)
ProviderApiKeys ==
    { NoStr, Str(<<>>), Str(<<" ">>), Str(<<"c">>),
      Str(FROM_KEYCHAIN), Str(FROM_KEYCHAIN \o <<"2">>),
      Str(YOUR_), Str(YOUR_ \o <<"K">>), Str(<<"Y", "O", "U", "R">>) }

(* part_000:17-35: the key returned (NoStr: null) and the cache afterwards *)
getApiKeyFromKeychain(cache, plat, sec) ==
    IF plat # "darwin" THEN [key |-> NoStr, cache |-> cache, ran |-> FALSE]
    ELSE IF Truthy(cache) THEN [key |-> cache, cache |-> cache, ran |-> FALSE]
    ELSE IF sec.kind = "output" /\ Trim(sec.chars) # <<>>
    THEN [key |-> Str(Trim(sec.chars)), cache |-> Str(Trim(sec.chars)),
          ran |-> TRUE]
    ELSE [key |-> NoStr, cache |-> cache, ran |-> TRUE]

(* Variant: keys that start with YOUR_ are not taken for placeholders.     *)
isPlaceholder_mut(key) ==
    \/ ~Truthy(key)
    \/ key.chars = FROM_KEYCHAIN
(* part_000:49-53                                                          *)
isPlaceholder(key) ==
    \/ ~Truthy(key)
    \/ key.chars = FROM_KEYCHAIN
    \/ StartsWith(key.chars, YOUR_)

(* part_000:55-58: what the message of the error names.                    *)
NoKeyError ==
    { "No Gemini API key found", "GEMINI_API_KEY env var",
      "security add-generic-password -s \"claude-code-router\" -a \"gemini-api-key\"" }

KeyResult(kind, key, error, keychain) ==
    [kind |-> kind, key |-> key, error |-> error, cache |-> keychain.cache,
     ran |-> keychain.ran]

(* getApiKeyFromKeychain was not called.                                   *)
NotLookedUp(cache) == [key |-> NoStr, cache |-> cache, ran |-> FALSE]

(* part_000:41-59                                                          *)
resolveApiKey(key, env, cache, plat, sec) ==
    IF env.defined /\ Trim(env.chars) # <<>>
    THEN KeyResult("returned", Str(Trim(env.chars)), {}, NotLookedUp(cache))
    ELSE LET keychain == getApiKeyFromKeychain(cache, plat, sec)
         IN  IF Truthy(keychain.key)
             THEN KeyResult("returned", keychain.key, {}, keychain)
             ELSE IF ~isPlaceholder(key)
             THEN KeyResult("returned", key, {}, keychain)
             ELSE KeyResult("threw", NoStr, NoKeyError, keychain)

(* part_000:66-87: one call; buildRequestBody runs after resolveApiKey     *)
(* has returned.                                                           *)
GeminiTransformRequestIn ==
    /\ UNCHANGED notKeyVars
    /\ kpc # "idle"
    /\ keyCalls < MaxKeyCalls
    /\ \E env \in EnvValues, sec \in SecurityOutcomes, key \in ProviderApiKeys :
          \E r \in {resolveApiKey(key, env, cachedKeychainKey, platform, sec)} :
              /\ envKey' = env
              /\ security' = sec
              /\ providerApiKey' = key
              /\ cachedKeychainKey' = r.cache
              /\ apiKey' = r.key
              /\ keyError' = r.error
              /\ kpc' = r.kind
              /\ bodyBuilt' = (r.kind = "returned")
              /\ securityRuns' = securityRuns + (IF r.ran THEN 1 ELSE 0)
    /\ keyCalls' = keyCalls + 1
    /\ UNCHANGED platform

KeyInit ==
    /\ RequestIdle /\ GeminiIdle /\ BuildIdle /\ RoundTripIdle
    /\ AdapterIdle
    /\ AuthIdle
    /\ kpc = "ready"
    /\ cachedKeychainKey = NoStr
    /\ envKey = NoStr
    /\ platform \in Platforms
    /\ security = Nothing
    /\ providerApiKey = NoStr
    /\ apiKey = NoStr
    /\ keyError = {}
    /\ bodyBuilt = FALSE
    /\ keyCalls = 0
    /\ securityRuns = 0

KeyNext == GeminiTransformRequestIn

KeySpec == KeyInit /\ [][KeyNext]_vars

(***************************************************************************)
(* C21: a call returns the trimmed GEMINI_API_KEY value when that is not   *)
(* empty; else the keychain key when one is found (in the cache or by the  *)
(* lookup, on macOS); else the config key if it is not empty, not          *)
(* "FROM_KEYCHAIN" and does not start with "YOUR_"; in every other case it *)
(* throws an error that names the env var and the keychain command, and    *)
(* no request body is built.                                               *)
(***************************************************************************)
C21_Step ==
    keyCalls' = keyCalls + 1 =>
        LET found ==
                /\ platform = "darwin"
                /\ \/ cachedKeychainKey.chars # <<>>
                   \/ security'.kind = "output" /\ Trim(security'.chars) # <<>>
            keychainKey ==
                IF cachedKeychainKey.chars # <<>> THEN cachedKeychainKey
                ELSE Str(Trim(security'.chars))
            usable ==
                /\ providerApiKey'.defined
                /\ providerApiKey'.chars # <<>>
                /\ providerApiKey'.chars # FROM_KEYCHAIN
                /\ ~StartsWith(providerApiKey'.chars, YOUR_)
            Returns(key) == kpc' = "returned" /\ apiKey' = key /\ bodyBuilt'
        IN  IF envKey'.defined /\ Trim(envKey'.chars) # <<>>
            THEN Returns(Str(Trim(envKey'.chars)))
            ELSE IF found THEN Returns(keychainKey)
            ELSE IF usable THEN Returns(providerApiKey')
            ELSE /\ kpc' = "threw"
                 /\ apiKey' = NoStr
                 /\ \E e \in keyError' : e = "GEMINI_API_KEY env var"
                 /\ \E e \in keyError' :
                       e = "security add-generic-password -s \"claude-code-router\" -a \"gemini-api-key\""
                 /\ ~bodyBuilt'

C21_ResolveApiKey == [][C21_Step]_vars

(* A config key that starts with YOUR_ with no env value and no keychain   *)
(* key: the call threw and built no body.                                  *)
C21_Witness ==
    /\ kpc = "threw"
    /\ providerApiKey = Str(YOUR_ \o <<"K">>)
    /\ ~Truthy(envKey)
    /\ ~Truthy(cachedKeychainKey)
    /\ ~bodyBuilt

(***************************************************************************)
(* C34: the keychain cache is write-once: over the calls of one process,   *)
(* in any order, cachedKeychainKey is never overwritten or cleared once it *)
(* holds a key, every later call of getApiKeyFromKeychain returns that     *)
(* key, and the keychain subprocess is run at most once.                   *)
(***************************************************************************)
C34_Step ==
    /\ Truthy(cachedKeychainKey) =>
          /\ cachedKeychainKey' = cachedKeychainKey
          /\ (keyCalls' = keyCalls + 1 /\ ~Truthy(Str(Trim(envKey'.chars)))) =>
                 apiKey' = cachedKeychainKey
    /\ securityRuns' <= 1

C34_WriteOnceCache == [][C34_Step]_vars

(***************************************************************************)
(* Part 6: buildRequestBody (gemini.util.ts:331-585): the contents built   *)
(* from the messages, the loop hint of detectToolLoops, the                *)
(* generationConfig, and the call as a whole.                              *)
(***************************************************************************)
(* A text is the sequence of its words and of the spaces between them.     *)
RECURSIVE JoinSpace(_)
JoinSpace(texts) ==
    IF texts = <<>> THEN <<>>
    ELSE IF Len(texts) = 1 THEN texts[1]
    ELSE texts[1] \o <<" ">> \o JoinSpace(Tail(texts))

Words(words) == JoinSpace([i \in 1..Len(words) |-> <<words[i]>>])

(* String.prototype.includes                                               *)
Includes(text, pattern) ==
    \E i \in 1..(Len(text) - Len(pattern) + 1) :
        SubSeq(text, i, i + Len(pattern) - 1) = pattern

(* gemini.util.ts:246-249                                                  *)
EDIT_LOOP_ERROR_PATTERNS ==
    { Words(<<"old_string", "and", "new_string", "are", "exactly", "the", "same">>),
      Words(<<"No", "changes", "to", "make">>) }

(* gemini.util.ts:254-266                                                  *)
ERROR_INDICATORS ==
    { <<"Error:">>, <<"Error", " ">>, <<"error:">>, <<"ENOENT">>, <<"EACCES">>,
      <<"EPERM">>, <<"failed">>, <<"FAILED">>, Words(<<"not", "found">>),
      Words(<<"Permission", "denied">>),
      Words(<<"Operation", "not", "permitted">>) }

(* gemini.util.ts:271-280                                                  *)
getToolResultText(content) ==
    IF content.type = "string" THEN content.str
    ELSE IF content.type = "array"
    THEN JoinSpace([i \in 1..Len(content.parts) |-> content.parts[i].text])
    ELSE <<>>

(* messages.slice(-20)                                                     *)
RecentWindow == 20
Recent(messages) ==
    IF Len(messages) <= RecentWindow THEN messages
    ELSE SubSeq(messages, Len(messages) - RecentWindow + 1, Len(messages))

EditHint ==
    "IMPORTANT: Your last Edit/Update attempts failed because old_string and new_string were identical. ..."
GenericHint ==
    "IMPORTANT: You appear to be encountering repeated tool errors. ..."
NullHint == "null"

IsEditSameContent(msg) ==
    \E p \in EDIT_LOOP_ERROR_PATTERNS : Includes(getToolResultText(msg.content), p)
IsGenericError(msg) ==
    \E p \in ERROR_INDICATORS : Includes(getToolResultText(msg.content), p)

(* gemini.util.ts:291-329                                                  *)
detectToolLoops(messages) ==
    LET recentMessages == Recent(messages)
        tools == { i \in 1..Len(recentMessages) : recentMessages[i].role = "tool" }
        editSameContentCount ==
            Cardinality({ i \in tools : IsEditSameContent(recentMessages[i]) })
        genericErrorCount ==
            Cardinality({ i \in tools : /\ ~IsEditSameContent(recentMessages[i])
                                        /\ IsGenericError(recentMessages[i]) })
    IN  IF editSameContentCount >= 2 THEN EditHint
        ELSE IF genericErrorCount >= 3 THEN GenericHint
        ELSE NullHint

(* response?.content of no response.                                       *)
CUndefined == [type |-> "undefined", str |-> <<>>, parts |-> <<>>]

(* A part of a content of the body: {text}, {functionCall: {id, name,      *)
(* args}} or {functionResponse: {name, response: {result}}}.               *)
RequestPart(kind, text, id, name, args, result) ==
    [kind |-> kind, text |-> text, id |-> id, name |-> name, args |-> args,
     result |-> result, thoughtSignature |-> NoField]

(* part.thoughtSignature = signature, when the message has one.            *)
WithThoughtSignature(part, signature) ==
    [part EXCEPT !.thoughtSignature = signature]
TextOnly(text) == RequestPart("text", text, "", "", "", CUndefined)
FunctionCallPart(id, name, args) ==
    RequestPart("functionCall", <<>>, IF id = "" THEN "tool_<random>" ELSE id,
                name, args, CUndefined)
FunctionResponsePart(name, result) ==
    RequestPart("functionResponse", <<>>, "", name, "", result)

Content(role, parts) == [role |-> role, parts |-> parts]

(* gemini.util.ts:365-372                                                  *)
GeminiRole(role) == IF role = "assistant" THEN "model" ELSE "user"

(* gemini.util.ts:373-440: the parts of the content of one message.        *)
MessageParts(message) ==
    LET contentParts ==
            IF message.content.type = "string"
            THEN <<WithThoughtSignature(TextOnly(message.content.str),
                                        message.thinking)>>
            ELSE IF message.content.type = "array"
            THEN [i \in 1..Len(message.content.parts) |->
                     TextOnly(message.content.parts[i].text)]
            ELSE <<>>
        callParts ==
            [i \in 1..Len(message.tool_calls) |->
                WithThoughtSignature(
                    FunctionCallPart(message.tool_calls[i].id,
                                     message.tool_calls[i].function.name,
                                     message.tool_calls[i].function.arguments),
                    IF i = 1 THEN message.thinking ELSE NoField)]
        parts == contentParts \o callParts
    IN  IF parts = <<>> THEN <<TextOnly(<<>>)>> ELSE parts

(* Variant: the first tool message answers every call.                     *)
FindResponseContent_mut(toolResponses, id) ==
    IF toolResponses = <<>> THEN CUndefined ELSE toolResponses[1].content
(* toolResponses.find((item) => item.tool_call_id === tool.id)?.content    *)
FindResponseContent(toolResponses, id) ==
    LET matches == { i \in 1..Len(toolResponses) : toolResponses[i].tool_call_id = id }
    IN  IF matches = {} THEN CUndefined
        ELSE toolResponses[CHOOSE i \in matches : \A j \in matches : i <= j].content

(* gemini.util.ts:364-465: what one message that is not a tool message     *)
(* adds to contents.                                                       *)
ContentsOfMessage(message, toolResponses) ==
    LET role == GeminiRole(message.role)
    IN  <<Content(role, MessageParts(message))>>
        \o (IF role = "model" /\ message.tool_calls # <<>>
            THEN <<Content("user",
                     [i \in 1..Len(message.tool_calls) |->
                         FunctionResponsePart(
                             message.tool_calls[i].function.name,
                             FindResponseContent(toolResponses,
                                                 message.tool_calls[i].id))])>>
            ELSE <<>>)

RECURSIVE FlatMapContents(_, _)
FlatMapContents(messages, toolResponses) ==
    IF messages = <<>> THEN <<>>
    ELSE ContentsOfMessage(Head(messages), toolResponses)
         \o FlatMapContents(Tail(messages), toolResponses)

(* gemini.util.ts:360-465                                                  *)
MessagesToContents(messages) ==
    FlatMapContents(SelectSeq(messages, LAMBDA m : m.role # "tool"),
                    SelectSeq(messages, LAMBDA m : m.role = "tool"))

(* Variant: the hint always gets a content of its own.                     *)
InjectLoopHint_mut(contents, hint) ==
    IF hint = NullHint THEN contents
    ELSE Append(contents, Content("user", <<TextOnly(<<hint>>)>>))
(* gemini.util.ts:468-481                                                  *)
InjectLoopHint(contents, hint) ==
    IF hint = NullHint THEN contents
    ELSE IF contents # <<>> /\ contents[Len(contents)].role = "user"
    THEN [contents EXCEPT ![Len(contents)].parts = Append(@, TextOnly(<<hint>>))]
    ELSE Append(contents, Content("user", <<TextOnly(<<hint>>)>>))

(* Messages of the conversations of the model.                             *)
Call2 == ToolCall("call_2", "Edit", "{\"old_string\":\"a\",\"new_string\":\"a\"}")
NoChanges == Words(<<"No", "changes", "to", "make">>)
ConversationMessages ==
    { Message("user", CStr(<<"hi">>), <<>>, NoField),
      Message("system", CStr(Words(<<"be", "brief">>)), <<>>, NoField),
      Message("assistant", CStr(<<"ok">>), <<>>, NoField),
      Message("assistant", CNull, <<Call1>>, NoField),
      Message("assistant", CStr(<<"editing">>), <<Call1, Call2>>, NoField),
      Message("tool", CStr(<<"done">>), <<>>, "call_1"),
      Message("tool", CStr(NoChanges), <<>>, "call_2"),
      Message("tool", CArr(<<TextPart(<<"No", " ", "changes">>, NoField),
                             TextPart(<<"to", " ", "make">>, NoField)>>),
              <<>>, "call_1"),
      Message("tool", CStr(Words(<<"File", "not", "found">>)), <<>>, "call_3") }

(* Messages of a conversation.                                             *)
MaxConversation == 4
ConversationSeqs ==
    UNION { [1..k -> ConversationMessages] : k \in 0..MaxConversation }

(* Long conversations: up to MaxOld messages, then user messages, then up  *)
(* to MaxRecent messages, so that the old messages lie on either side of   *)
(* the start of the last RecentWindow messages.                            *)
MaxOld == 2
MaxRecent == 3
LoopMessages ==
    { Message("tool", CStr(NoChanges), <<>>, "call_2"),
      Message("tool", CStr(Words(<<"File", "not", "found">>)), <<>>, "call_3"),
      Message("tool", CStr(<<"Error:", " ">> \o NoChanges), <<>>, "call_2"),
      Message("user", CStr(Words(<<"Error:", "build", "failed">>)), <<>>, NoField) }
Fillers == {RecentWindow - MaxRecent, RecentWindow - MaxRecent + 1}
LongConversations ==
    { old \o [i \in 1..n |-> Message("user", CStr(<<"hi">>), <<>>, NoField)] \o recent :
        old \in UNION { [1..k -> LoopMessages] : k \in 0..MaxOld },
        n \in Fillers,
        recent \in UNION { [1..k -> LoopMessages] : k \in 0..MaxRecent } }

(* request.model, as the sequence of the pieces of the name.               *)
ModelNames ==
    { <<"gemini", "-", "2.5", "-", "pro">>,
      <<"gemini", "-", "2.5", "-", "flash">>,
      <<"gemini", "-", "3", "-", "pro", "-", "preview">>,
      <<"gemini", "-", "3", "-", "flash">> }
IncludesGemini3(name) == Includes(name, <<"gemini", "-", "3">>)
IncludesPro(name) == Includes(name, <<"pro">>)

(* request.reasoning; effort NoField: no reasoning or no effort.           *)
Reasoning(effort, hasMaxTokens, max_tokens) ==
    [effort |-> effort, hasMaxTokens |-> hasMaxTokens, max_tokens |-> max_tokens]
Efforts == {NoField, "none", "low", "medium", "high"}
MaxTokensValues ==
    {-1, 0, 1, 127, 128, 129, 24575, 24576, 24577, 32767, 32768, 32769, 100000}
Reasonings ==
    { Reasoning(e, FALSE, 0) : e \in Efforts }
    \cup { Reasoning(e, TRUE, n) : e \in Efforts, n \in MaxTokensValues }

(* Variant: the budget of a pro model may go down to 0.                    *)
thinkingBudgets_mut(name) == IF IncludesPro(name) THEN <<0, 32768>> ELSE <<0, 24576>>
(* gemini.util.ts:513-515                                                  *)
thinkingBudgets(name) == IF IncludesPro(name) THEN <<128, 32768>> ELSE <<0, 24576>>

(* gemini.util.ts:518-530                                                  *)
ThinkingBudget(name, max_tokens) ==
    LET budgets == thinkingBudgets(name)
    IN  IF max_tokens >= budgets[1] /\ max_tokens <= budgets[2] THEN max_tokens
        ELSE IF max_tokens < budgets[1] THEN budgets[1]
        ELSE budgets[2]

(* gemini.util.ts:500-511                                                  *)
ThinkingLevel(name, effort) ==
    IF IncludesPro(name) THEN (IF effort = "high" THEN "HIGH" ELSE "LOW")
    ELSE IF effort = "high" THEN "HIGH"
    ELSE IF effort = "medium" THEN "MEDIUM" ELSE "LOW"

GenerationConfig(temperature, thinkingConfig, thinkingLevel, hasBudget, thinkingBudget) ==
    [temperature |-> temperature, thinkingConfig |-> thinkingConfig,
     thinkingLevel |-> thinkingLevel, hasBudget |-> hasBudget,
     thinkingBudget |-> thinkingBudget]

(* gemini.util.ts:483-533                                                  *)
BuildGenerationConfig(name, reasoning) ==
    LET temperature == IF IncludesGemini3(name) THEN "1.0" ELSE NoField
    IN  IF reasoning.effort \in {NoField, "none"}
        THEN GenerationConfig(temperature, FALSE, NoField, FALSE, 0)
        ELSE IF IncludesGemini3(name)
        THEN GenerationConfig(temperature, TRUE,
                              ThinkingLevel(name, reasoning.effort), FALSE, 0)
        ELSE IF reasoning.hasMaxTokens
        THEN GenerationConfig(temperature, TRUE, NoField, TRUE,
                              ThinkingBudget(name, reasoning.max_tokens))
        ELSE GenerationConfig(temperature, TRUE, NoField, FALSE, 0)

BuildRequest(messages, name, reasoning) ==
    [kind |-> "request", messages |-> messages, model |-> name,
     reasoning |-> reasoning]

(* Conversations whose assistant message carries thinking.signature.       *)
Signature == "sig_1"
ThinkingMessages ==
    { ThinkingMessage("assistant", CStr(<<"editing">>), <<Call1, Call2>>, Signature),
      ThinkingMessage("assistant", CStr(<<"ok">>), <<>>, Signature),
      ThinkingMessage("assistant", CNull, <<Call1, Call2>>, Signature),
      ThinkingMessage("assistant", CArr(<<TextPart(<<"editing">>, NoField)>>),
                      <<Call1>>, Signature) }
ThinkingConversations ==
    { <<Message("user", CStr(<<"hi">>), <<>>, NoField), m>> : m \in ThinkingMessages }
    \cup { <<m, Message("tool", CStr(<<"done">>), <<>>, "call_1")>> :
             m \in ThinkingMessages }

(* The requests of the model: each varies the tools, the messages or the   *)
(* model and reasoning of a plain request.                                 *)
PlainModel == <<"gemini", "-", "2.5", "-", "pro">>
PlainReasoning == Reasoning(NoField, FALSE, 0)
BuildInputs ==
    { <<ts, BuildRequest(<<>>, PlainModel, PlainReasoning)>> : ts \in ToolSeqs }
    \cup { <<<<>>, BuildRequest(ms, PlainModel, PlainReasoning)>> :
             ms \in ConversationSeqs \cup LongConversations
                    \cup ThinkingConversations }
    \cup { <<<<>>, BuildRequest(<<>>, n, r)>> : n \in ModelNames, r \in Reasonings }

(* gemini.util.ts:331-585: one call; of the body, the tools, the contents  *)
(* and the generationConfig are kept.                                      *)
BuildRequestBody ==
    /\ UNCHANGED notBuildVars
    /\ bpc = "start"
    /\ bodyTools' = buildRequestBodyTools(unifiedTools)
    /\ \E hint \in {detectToolLoops(buildRequest.messages)},
          contents \in {MessagesToContents(buildRequest.messages)} :
          /\ loopHint' = hint
          /\ contentsLoop' = contents
          /\ requestBody' =
                [kind |-> "body",
                 contents |-> InjectLoopHint(contents, hint),
                 generationConfig |->
                     BuildGenerationConfig(buildRequest.model,
                                           buildRequest.reasoning)]
    /\ bpc' = "built"
    /\ UNCHANGED <<unifiedTools, buildRequest>>

BuildInit ==
    /\ RequestIdle /\ GeminiIdle /\ RoundTripIdle /\ KeyIdle
    /\ AdapterIdle
    /\ AuthIdle
    /\ bpc = "start"
    /\ \E input \in BuildInputs :
          /\ unifiedTools = input[1]
          /\ buildRequest = input[2]
    /\ bodyTools = <<>>
    /\ loopHint = NoField
    /\ contentsLoop = <<>>
    /\ requestBody = Nothing

BuildNext == BuildRequestBody

BuildSpec == BuildInit /\ [][BuildNext]_vars

PartsOfKind(content, kind) == SelectSeq(content.parts, LAMBDA part : part.kind = kind)

(* The contents of the role:tool messages with tool_call_id = id;          *)
(* undefined when there is none.                                           *)
ResultsFor(messages, id) ==
    LET matching == { i \in 1..Len(messages) :
                        messages[i].role = "tool" /\ messages[i].tool_call_id = id }
    IN  IF matching = {} THEN {CUndefined}
        ELSE { messages[i].content : i \in matching }

(***************************************************************************)
(* C22: in the contents of the built body, every model-role content with   *)
(* functionCall parts (built from an assistant message with tool_calls) is *)
(* immediately followed by a user-role content whose functionResponse      *)
(* parts are one per tool call, in the same order, each with the name of   *)
(* the call and, as result, the content of the role:tool message whose     *)
(* tool_call_id is the call's id (undefined when none matches);            *)
(* functionResponse parts occur nowhere else, and role:tool messages add   *)
(* no content of their own.                                                *)
(***************************************************************************)
C22_FunctionResponses ==
    bpc = "built" =>
        LET contents == requestBody.contents
            messages == buildRequest.messages
            WithCalls(m) == m.role = "assistant" /\ m.tool_calls # <<>>
        IN  /\ \A i \in 1..Len(contents) :
                  LET calls == PartsOfKind(contents[i], "functionCall")
                  IN  contents[i].role = "model" /\ calls # <<>> =>
                          /\ i < Len(contents)
                          /\ contents[i + 1].role = "user"
                          /\ LET responses ==
                                     PartsOfKind(contents[i + 1], "functionResponse")
                             IN  /\ Len(responses) = Len(calls)
                                 /\ \A k \in 1..Len(calls) :
                                       /\ responses[k].name = calls[k].name
                                       /\ responses[k].result
                                              \in ResultsFor(messages, calls[k].id)
            /\ \A i \in 1..Len(contents) :
                  PartsOfKind(contents[i], "functionResponse") # <<>> =>
                      /\ i > 1
                      /\ contents[i - 1].role = "model"
                      /\ PartsOfKind(contents[i - 1], "functionCall") # <<>>
            /\ Len(contentsLoop) =
                   Len(SelectSeq(messages, LAMBDA m : m.role # "tool"))
                   + Len(SelectSeq(messages, WithCalls))

(* Two calls of one assistant message, one answered by a tool message and  *)
(* one not, with tool messages in the conversation.                        *)
C22_Witness ==
    /\ bpc = "built"
    /\ \E i \in 1..Len(requestBody.contents) :
          LET responses == PartsOfKind(requestBody.contents[i], "functionResponse")
          IN  /\ Len(responses) = 2
              /\ responses[1].result = CStr(<<"done">>)
              /\ responses[2].result = CUndefined

(* The role:tool messages among the last 20 of the request.                *)
RecentTools ==
    { i \in 1..Len(buildRequest.messages) :
        /\ i > Len(buildRequest.messages) - 20
        /\ buildRequest.messages[i].role = "tool" }
HasEditPattern(i) ==
    \E p \in EDIT_LOOP_ERROR_PATTERNS :
        Includes(getToolResultText(buildRequest.messages[i].content), p)
HasErrorIndicator(i) ==
    \E p \in ERROR_INDICATORS :
        Includes(getToolResultText(buildRequest.messages[i].content), p)

(***************************************************************************)
(* C23: over the last 20 messages, the edit-tool hint when at  *)
(* least 2 role:tool messages contain an edit-same-content pattern;        *)
(* otherwise the generic hint when at least 3 role:tool messages contain a *)
(* generic error indicator; otherwise null.                                *)
(***************************************************************************)
C23_DetectToolLoops ==
    bpc = "built" =>
        loopHint =
            IF Cardinality({ i \in RecentTools : HasEditPattern(i) }) >= 2
            THEN EditHint
            ELSE IF Cardinality({ i \in RecentTools : HasErrorIndicator(i) }) >= 3
            THEN GenericHint
            ELSE NullHint

HintPart == TextOnly(<<loopHint>>)
UserContents(contents) == { i \in 1..Len(contents) : contents[i].role = "user" }
Last(set) == CHOOSE i \in set : \A j \in set : j <= i
AppendedTo(contents, i) == [contents EXCEPT ![i].parts = Append(@, HintPart)]

(***************************************************************************)
(* C30, as claimed: a hint is appended as one {text: hint} part to the     *)
(* last user-role content when one exists, otherwise a new user-role       *)
(* content holding only the hint is pushed; the rest of contents is        *)
(* unchanged.  Without a hint contents is unchanged.                       *)
(***************************************************************************)
C30_AsClaimed ==
    bpc = "built" =>
        requestBody.contents =
            IF loopHint = NullHint THEN contentsLoop
            ELSE IF UserContents(contentsLoop) # {}
            THEN AppendedTo(contentsLoop, Last(UserContents(contentsLoop)))
            ELSE Append(contentsLoop, Content("user", <<HintPart>>))

(***************************************************************************)
(* C30, amended: a hint is appended as one {text: hint} part to the final  *)
(* content when that is user-role, otherwise (contents empty or ending     *)
(* with a model-role content) a new user-role content holding only the     *)
(* hint is pushed; afterwards the final content is user-role with the hint *)
(* as its last part, and every other content and part is unchanged.        *)
(* Without a hint contents is unchanged.                                   *)
(***************************************************************************)
C30_LoopHintInjected ==
    bpc = "built" =>
        LET contents == requestBody.contents
            n == Len(contentsLoop)
        IN  IF loopHint = NullHint THEN contents = contentsLoop
            ELSE /\ contents =
                       IF n > 0 /\ contentsLoop[n].role = "user"
                       THEN AppendedTo(contentsLoop, n)
                       ELSE Append(contentsLoop, Content("user", <<HintPart>>))
                 /\ contents[Len(contents)].role = "user"
                 /\ contents[Len(contents)].parts[Len(contents[Len(contents)].parts)]
                        = HintPart

(* A hint for a conversation whose contents have a user-role content and   *)
(* end with a model-role content: the hint is pushed as a new content.     *)
C30_Witness ==
    /\ bpc = "built"
    /\ loopHint # NullHint
    /\ UserContents(contentsLoop) # {}
    /\ contentsLoop[Len(contentsLoop)].role = "model"
    /\ Len(requestBody.contents) = Len(contentsLoop) + 1

Min(a, b) == IF a <= b THEN a ELSE b

(***************************************************************************)
(* C25: for a model that is not gemini-3, with reasoning effort low,       *)
(* medium or high and reasoning.max_tokens set, thinkingBudget is          *)
(* max_tokens clamped into [128, 32768] when the model name contains "pro" *)
(* and into [0, 24576] otherwise.                                          *)
(***************************************************************************)
C25_ThinkingBudgetClamped ==
    ( /\ bpc = "built"
      /\ ~IncludesGemini3(buildRequest.model)
      /\ buildRequest.reasoning.effort \in {"low", "medium", "high"}
      /\ buildRequest.reasoning.hasMaxTokens ) =>
        LET config == requestBody.generationConfig
            max_tokens == buildRequest.reasoning.max_tokens
        IN  /\ config.thinkingConfig
            /\ config.hasBudget
            /\ config.thinkingBudget =
                   IF Includes(buildRequest.model, <<"pro">>)
                   THEN Min(Max(max_tokens, 128), 32768)
                   ELSE Min(Max(max_tokens, 0), 24576)

(* max_tokens 127 for a pro model gives the minimum, 128.                  *)
C25_Witness ==
    /\ bpc = "built"
    /\ buildRequest.model = <<"gemini", "-", "2.5", "-", "pro">>
    /\ buildRequest.reasoning = Reasoning("medium", TRUE, 127)
    /\ requestBody.generationConfig.thinkingBudget = 128

(***************************************************************************)
(* C31: of the parts of the Gemini content built from an assistant message *)
(* that carries thinking.signature, at most one carries thoughtSignature:  *)
(* the first functionCall part gets it only when no earlier part of the    *)
(* content has it.                                                         *)
(***************************************************************************)
SignedParts(content) ==
    { i \in 1..Len(content.parts) : content.parts[i].thoughtSignature # NoField }

C31_OneThoughtSignature ==
    bpc = "built" =>
        \A c \in 1..Len(requestBody.contents) :
            Cardinality(SignedParts(requestBody.contents[c])) <= 1

(***************************************************************************)
(* Part 7: the stream adapters of OpenAICompatibleTransformer              *)
(* (part_000:381-485 and 495-599).  An exception is a value: every step of *)
(* the code gives the new local state and whether it threw.                *)
(***************************************************************************)
MaxReads == 2

AdapterNames == {"convertOpenAIStreamToUnified", "convertUnifiedStreamToOpenAI"}

(***************************************************************************)
(* The TypeError of enqueue() and close() on a stream that is not readable *)
(* has a message the runtime chooses; .includes("Controller is already     *)
(* closed") holds for the first.                                           *)
(***************************************************************************)
ClosedMessages ==
    { "Invalid state: Controller is already closed",
      "The stream is not in a state that permits close" }
IncludesAlreadyClosed(message) ==
    message = "Invalid state: Controller is already closed"

(* The adapter's view of its stream.                                       *)
AdapterState ==
    [isClosed |-> isClosed, streamState |-> streamState, enqueued |-> enqueued,
     lateCalls |-> lateCalls, closeThrew |-> closeThrew, frames |-> frames]

Ok(st) == [st |-> st, thrown |-> FALSE]
Thrown(st) == [st |-> st, thrown |-> TRUE]

(* A call of enqueue or close made while isClosed is counted.              *)
Called(st) == [st EXCEPT !.lateCalls = IF st.isClosed THEN @ + 1 ELSE @]

(* controller.enqueue(data), data being the frame of a line                *)
ControllerEnqueue(st, data) ==
    IF st.streamState = "readable"
    THEN Ok([Called(st) EXCEPT !.enqueued = @ + 1, !.frames = Append(@, data)])
    ELSE Thrown(Called(st))

(* controller.close()                                                      *)
ControllerClose(st) ==
    IF st.streamState = "readable"
    THEN Ok([Called(st) EXCEPT !.streamState = "closed"])
    ELSE Thrown([Called(st) EXCEPT !.closeThrew = TRUE])

(* controller.error(e): nothing happens unless the stream is readable.     *)
ControllerError(st) ==
    IF st.streamState = "readable"
    THEN Ok([st EXCEPT !.streamState = "errored"])
    ELSE Ok(st)

(* part_000:391-405                                                        *)
safeEnqueue(st, data, message) ==
    IF st.isClosed THEN Ok(st)
    ELSE LET r == ControllerEnqueue(st, data)
         IN  IF ~r.thrown THEN r
             ELSE IF IncludesAlreadyClosed(message)
                  THEN Ok([r.st EXCEPT !.isClosed = TRUE])
                  ELSE Thrown(r.st)

(* Variant: close() is called without looking at isClosed.                 *)
safeClose_mut(st, message) ==
    LET r == ControllerClose(st)
    IN  IF ~r.thrown THEN Ok([r.st EXCEPT !.isClosed = TRUE])
        ELSE IF IncludesAlreadyClosed(message)
             THEN Ok([r.st EXCEPT !.isClosed = TRUE])
             ELSE Thrown(r.st)

(* part_000:407-422                                                        *)
safeClose(st, message) ==
    IF st.isClosed THEN Ok(st)
    ELSE LET r == ControllerClose(st)
         IN  IF ~r.thrown THEN Ok([r.st EXCEPT !.isClosed = TRUE])
             ELSE IF IncludesAlreadyClosed(message)
                  THEN Ok([r.st EXCEPT !.isClosed = TRUE])
                  ELSE Thrown(r.st)

(***************************************************************************)
(* The lines of a chunk: one that does not start with "data:", the         *)
(* "[DONE]" line, a data line with JSON and a data line without.           *)
(***************************************************************************)
AdapterLines == {"other", "done", "json", "invalid"}
AdapterChunks ==
    {<<>>} \cup { <<a>> : a \in AdapterLines }
    \cup { <<a, b>> : a \in AdapterLines, b \in AdapterLines }

(* part_000:442-459: the for loop over the lines of a chunk.               *)
RECURSIVE ForLines(_, _, _)
ForLines(st, lines, message) ==
    IF lines = <<>> \/ st.isClosed THEN Ok(st)
    ELSE LET l == Head(lines)
         IN  IF l = "done"
             THEN LET r == safeEnqueue(st, l, message)
                  IN  IF r.thrown THEN r
                      ELSE ForLines(r.st, Tail(lines), message)
             ELSE IF l = "json"
             THEN \* an error thrown inside the try is caught with the parse errors
                  ForLines(safeEnqueue(st, l, message).st, Tail(lines), message)
             ELSE ForLines(st, Tail(lines), message)

(* part_000:462-470: the catch block; the finally block changes nothing.   *)
AdapterCatch(r) ==
    IF ~r.thrown THEN r
    ELSE IF ~r.st.isClosed THEN ControllerError(r.st)
    ELSE Ok(r.st)

(* The state after start() has run to its end with this outcome.           *)
AdapterEnds(r) ==
    /\ isClosed' = r.st.isClosed
    /\ streamState' = r.st.streamState
    /\ enqueued' = r.st.enqueued
    /\ lateCalls' = r.st.lateCalls
    /\ closeThrew' = r.st.closeThrew
    /\ frames' = r.st.frames
    /\ escaped' = r.thrown

(* part_000:427-429: getReader() returns, or throws on a locked stream.    *)
AdapterStart ==
    /\ apc = "start"
    /\ \E locked \in BOOLEAN :
         IF locked
         THEN /\ AdapterEnds(AdapterCatch(Thrown(AdapterState)))
              /\ apc' = "finished"
              /\ aend' = "locked"
         ELSE /\ apc' = "reading"
              /\ UNCHANGED <<isClosed, streamState, enqueued, lateCalls,
                             closeThrew, escaped, frames, aend>>
    /\ UNCHANGED <<adapter, closedMessage, reads, abuffer, received>>
    /\ UNCHANGED notAdapterVars

(* The lines of which a frame is to be forwarded.                          *)
Forwardable(lines) == SelectSeq(lines, LAMBDA l : l \in {"done", "json"})

(* buffer.split("\n") with the unterminated line of the earlier chunks in  *)
(* front (part_000:438-440).                                               *)
SplitLines(buf, lines) == (IF buf = NoField THEN <<>> ELSE <<buf>>) \o lines

(***************************************************************************)
(* part_000:431-461: a read gives a chunk: lines that end with "\n" and,   *)
(* after them, a line that does not (`rest`; NoField when the chunk ends   *)
(* with "\n").  A chunk that follows an unterminated line starts with the  *)
(* "\n" that ends it.  The lines are handled, the rest is kept in buffer,  *)
(* and the loop goes to its next turn, where isClosed ends it.             *)
(***************************************************************************)
AdapterReadChunk ==
    /\ apc = "reading"
    /\ reads < MaxReads
    /\ \E lines \in AdapterChunks, rest \in AdapterLines \cup {NoField} :
         /\ lines = <<>> => rest = NoField
         /\ received' = received \o Forwardable(lines)
                         \o (IF rest = NoField THEN <<>> ELSE Forwardable(<<rest>>))
         /\ abuffer' = rest
         /\ \E r \in {ForLines(AdapterState, SplitLines(abuffer, lines),
                               closedMessage)} :
              IF r.thrown
              THEN /\ AdapterEnds(AdapterCatch(r))
                   /\ apc' = "finished"
                   /\ aend' = "enqueue threw"
              ELSE IF r.st.isClosed
              THEN /\ AdapterEnds(AdapterCatch(safeClose(r.st, closedMessage)))
                   /\ apc' = "finished"
                   /\ aend' = "isClosed"
              ELSE /\ AdapterEnds(r)
                   /\ apc' = "reading"
                   /\ UNCHANGED aend
    /\ reads' = reads + 1
    /\ UNCHANGED <<adapter, closedMessage>>
    /\ UNCHANGED notAdapterVars

(* part_000:436-437, 461: the upstream ends; safeClose().                  *)
AdapterReadDone ==
    /\ apc = "reading"
    /\ AdapterEnds(AdapterCatch(safeClose(AdapterState, closedMessage)))
    /\ apc' = "finished"
    /\ aend' = "done"
    /\ UNCHANGED <<adapter, closedMessage, reads, abuffer, received>>
    /\ UNCHANGED notAdapterVars

(* part_000:436, 462-470: reader.read() rejects.                           *)
AdapterReadError ==
    /\ apc = "reading"
    /\ AdapterEnds(AdapterCatch(Thrown(AdapterState)))
    /\ apc' = "finished"
    /\ aend' = "error"
    /\ UNCHANGED <<adapter, closedMessage, reads, abuffer, received>>
    /\ UNCHANGED notAdapterVars

(* The consumer of the returned stream cancels it while a read is pending: *)
(* the stream is closed and the adapter is not told (no cancel callback,   *)
(* part_000:385-386).                                                      *)
ConsumerCancels ==
    /\ apc = "reading"
    /\ streamState = "readable"
    /\ streamState' = "closed"
    /\ UNCHANGED <<apc, adapter, isClosed, closedMessage, reads, enqueued,
                   lateCalls, closeThrew, escaped, abuffer, received, frames,
                   aend>>
    /\ UNCHANGED notAdapterVars

AdapterInit ==
    /\ RequestIdle
    /\ GeminiIdle
    /\ BuildIdle
    /\ RoundTripIdle
    /\ KeyIdle
    /\ AuthIdle
    /\ apc = "start"
    /\ adapter \in AdapterNames
    /\ closedMessage \in ClosedMessages
    /\ isClosed = FALSE
    /\ streamState = "readable"
    /\ reads = 0
    /\ enqueued = 0
    /\ lateCalls = 0
    /\ closeThrew = FALSE
    /\ escaped = FALSE
    /\ abuffer = NoField
    /\ received = <<>>
    /\ frames = <<>>
    /\ aend = "none"

AdapterNext ==
    \/ AdapterStart
    \/ AdapterReadChunk
    \/ AdapterReadDone
    \/ AdapterReadError
    \/ ConsumerCancels

AdapterSpec == AdapterInit /\ [][AdapterNext]_vars

(***************************************************************************)
(* C24: in each adapter isClosed, once true, stays true; no enqueue() and  *)
(* no close() is called while it is true; and start() never rejects, also  *)
(* when close() or enqueue() meets a stream that is already closed, at the *)
(* end of the upstream or after an error.                                  *)
(***************************************************************************)
C24_Step ==
    /\ isClosed => isClosed'
    /\ lateCalls' = 0
    /\ ~escaped'

C24_StickyIsClosed == [][C24_Step]_vars

(* The upstream ends after the consumer closed the stream: close() throws, *)
(* the adapter takes it and ends with isClosed.                            *)
C24_Witness ==
    /\ apc = "finished"
    /\ streamState = "closed"
    /\ closeThrew
    /\ isClosed
    /\ lateCalls = 0
    /\ ~escaped

(***************************************************************************)
(* Part 8: the constructor and auth of OpenAICompatibleTransformer         *)
(* (part_000:120-138).  An API key is the sequence of its characters,      *)
(* character i being written i.                                            *)
(***************************************************************************)
MaxKeyLength == 12

ApiKeys == { [i \in 1..n |-> i] : n \in 0..MaxKeyLength }
UseBearerOptions == {"undefined", "true", "false"}
AuthRequests == {"request 1", "request 2"}

(* str.substring(from, to), for 0 <= from <= to                            *)
Substring(str, from, to) == SubSeq(str, from + 1, Min(to, Len(str)))

(* this.options?.UseBearer ?? true                                         *)
UseBearerOrTrue(option) == IF option = "undefined" THEN TRUE ELSE option = "true"

(* part_000:128-130: `Bearer ${provider.apiKey.substring(0, 10)}...`       *)
BearerHeader(key) == <<"Bearer ">> \o Substring(key, 0, 10) \o <<".", ".", ".">>

(* part_000:124-137; authorization <<>> when the header is not set.        *)
auth(request, key, bearer) ==
    [kind |-> "auth", body |-> request,
     hasAuthorization |-> bearer,
     authorization |-> IF bearer THEN BearerHeader(key) ELSE <<>>]

(* part_000:116-118                                                        *)
Construct ==
    /\ UNCHANGED notAuthVars
    /\ upc = "new"
    /\ useBearer' = UseBearerOrTrue(optionUseBearer)
    /\ upc' = "constructed"
    /\ UNCHANGED <<optionUseBearer, authApiKey, authRequest, authResult>>

(* part_000:120-138                                                        *)
Auth ==
    /\ UNCHANGED notAuthVars
    /\ upc = "constructed"
    /\ authResult' = auth(authRequest, authApiKey, useBearer)
    /\ upc' = "authed"
    /\ UNCHANGED <<optionUseBearer, useBearer, authApiKey, authRequest>>

AuthInit ==
    /\ RequestIdle /\ GeminiIdle /\ BuildIdle /\ RoundTripIdle /\ KeyIdle
    /\ AdapterIdle
    /\ upc = "new"
    /\ optionUseBearer \in UseBearerOptions
    /\ useBearer = FALSE
    /\ authApiKey \in ApiKeys
    /\ authRequest \in AuthRequests
    /\ authResult = Nothing

AuthNext == Construct \/ Auth

AuthSpec == AuthInit /\ [][AuthNext]_vars

(***************************************************************************)
(* C36: with UseBearer not set or true, auth sets the authorization header *)
(* to "Bearer " followed by the whole API key, whatever its length; with   *)
(* UseBearer false it sets no authorization header; the request is         *)
(* returned as the body unchanged.                                         *)
(***************************************************************************)
C36_BearerWholeKey ==
    upc = "authed" =>
        /\ authResult.body = authRequest
        /\ IF optionUseBearer = "false"
           THEN ~authResult.hasAuthorization
           ELSE /\ authResult.hasAuthorization
                /\ authResult.authorization = <<"Bearer ">> \o authApiKey

(***************************************************************************)
(* C35: when the upstream has ended and the caller stream was readable to  *)
(* the end, the frames enqueued are those of the [DONE] and JSON data      *)
(* lines received, one each, in their order, the last line included when   *)
(* it did not end with "\n"; lines with invalid JSON give no frame and do  *)
(* not stop the lines after them.                                          *)
(***************************************************************************)
C35_EveryLineForwarded ==
    (apc = "finished" /\ aend = "done" /\ ~closeThrew /\ streamState = "closed")
        => frames = received

====
